---- MODULE Spec2Model ----
(***************************************************************************)
(* Model of edgedb/lang/common/datastructures/all.py: the self-sorting     *)
(* list, the ordered-set family and the typed record (Struct) framework.   *)
(*                                                                         *)
(* Every Python call is one action.  An action applies the operator that   *)
(* models the called method (nested calls included) and records the call   *)
(* and its outcome in the variable op: op.err is "none" when the call      *)
(* returned and the name of the exception class when it raised.            *)
(***************************************************************************)
EXTENDS Integers, Sequences, FiniteSets, TLC

VARIABLES
    sl,        \* the SortedList instance: items and the three guard flags
    os,        \* the OrderedSet instance: its OrderedDict self.map
    hist,      \* the elements passed to OrderedSet.add so far, in call order
    lastRemoved, \* the last element removed from the OrderedSet and where it was
    oi,        \* the OrderedIndex or StrictOrderedIndex instance: self.map and self.key
    es,        \* the ExtendedSet instance: self._set and self._index
    fields,    \* the record type under test: its merged field table cls._fields
    inst,      \* the Struct instance: whether it exists and its field values
    classes,   \* the record types defined so far (StructMeta.__new__ results)
    osB,       \* a second OrderedSet, the right-hand operand of set operations
    other,     \* a second Struct instance of the same record type
    layout,    \* per record type: its slots marker and its instance layout
    obj,       \* an instance of one of classes: its type and its __dict__
    oi2,       \* the index returned by copy() or by a set operator on oi
    eql,       \* the documentation domain: the objects registry and document ids
    op         \* the last call made and its outcome

vars == <<sl, os, hist, lastRemoved, oi, es, fields, inst, classes,
          osB, other, layout, obj, oi2, eql, op>>

(***************************************************************************)
(* Bounds of the model.                                                    *)
(***************************************************************************)
MaxVal == 3        \* SortedList elements are 1..MaxVal
MaxLen == 4        \* longest SortedList explored
MaxExt == 2        \* longest argument of extend / +=

NoOp == [name |-> "init", err |-> "none"]

Min(a, b) == IF a < b THEN a ELSE b
Max(a, b) == IF a > b THEN a ELSE b

(***************************************************************************)
(* SortedList (all.py 168-207)                                             *)
(***************************************************************************)
Values == 1 .. MaxVal

\* An element that cannot be ordered against any other (None among numbers):
\* every comparison with it raises TypeError.
Incomparable == MaxVal + 1

\* The argument lists of extend and +=.
Iterables(V) == UNION { [1 .. n -> V] : n \in 0 .. MaxExt }

\* x < y of Python on the list's elements; Raises(x, y) when it raises.
Raises(x, y) == x = Incomparable \/ y = Incomparable

Lt(x, y) == x < y

\* The outcome of a call: the object after it and the exception it raised.
Ret(self, exc) == [self |-> self, exc |-> exc]

\* bisect.bisect_right(a, x): lo and hi are 0-based as in the library; the
\* result is -1 when a comparison raised.
RECURSIVE bisect_loop(_, _, _, _)
bisect_loop(a, x, lo, hi) ==
    IF lo < hi
    THEN LET mid == (lo + hi) \div 2
         IN  IF Raises(x, a[mid + 1]) THEN -1
             ELSE IF Lt(x, a[mid + 1])
             THEN bisect_loop(a, x, lo, mid)
             ELSE bisect_loop(a, x, mid + 1, hi)
    ELSE lo

bisect_right(a, x) == bisect_loop(a, x, 0, Len(a))

\* list.insert(i, x): a negative index counts from the end, and the index
\* is clamped to the list.
list_insert(a, i, x) ==
    LET j == IF i < 0 THEN Max(i + Len(a), 0) ELSE Min(i, Len(a))
    IN  SubSeq(a, 1, j) \o <<x>> \o SubSeq(a, j + 1, Len(a))

list_append(a, x) == Append(a, x)

list_extend(a, L) == a \o L

\* bisect.insort_right(self, x) on a list subclass: the position is found
\* by bisect_right and the element is stored by calling self.insert, which
\* is SortedList.insert.
RECURSIVE insort_right(_, _), SortedList_insert(_, _, _)
insort_right(self, x) ==
    LET lo == bisect_right(self.items, x)
    IN  IF lo = -1 THEN Ret(self, "TypeError")
        ELSE SortedList_insert(self, lo, x)

\* An exception leaves the method before the line that lowers its guard.
SortedList_insert_at(self, i, x) ==
    Ret([self EXCEPT !.items = list_insert(self.items, i, x)], "none")

SortedList_insert(self, i, x) ==
    IF ~self.inserting
    THEN LET r == insort_right([self EXCEPT !.inserting = TRUE], x)
         IN  IF r.exc # "none" THEN r
             ELSE Ret([r.self EXCEPT !.inserting = FALSE], "none")
    ELSE Ret([self EXCEPT !.items = list_insert(self.items, i, x)], "none")

SortedList_append(self, x) ==
    IF ~self.appending
    THEN LET r == insort_right([self EXCEPT !.appending = TRUE], x)
         IN  IF r.exc # "none" THEN r
             ELSE Ret([r.self EXCEPT !.appending = FALSE], "none")
    ELSE Ret([self EXCEPT !.items = list_append(self.items, x)], "none")

RECURSIVE insort_each(_, _)
insort_each(self, L) ==
    IF L = <<>> THEN Ret(self, "none")
    ELSE LET r == insort_right(self, Head(L))
         IN  IF r.exc # "none" THEN r ELSE insort_each(r.self, Tail(L))

SortedList_extend(self, L) ==
    IF ~self.extending
    THEN LET r == insort_each([self EXCEPT !.extending = TRUE], L)
         IN  IF r.exc # "none" THEN r
             ELSE Ret([r.self EXCEPT !.extending = FALSE], "none")
    ELSE Ret([self EXCEPT !.items = list_extend(self.items, L)], "none")

\* SortedList(): the empty list, sorted, all guards down.
SortedList_init ==
    [items |-> <<>>, appending |-> FALSE, extending |-> FALSE, inserting |-> FALSE]

\* The operations SortedList inherits unchanged from list.
\* a[i] = x: a negative index counts from the end; the caller has checked
\* the range (IndexError otherwise).
list_index(a, i) == IF i < 0 THEN i + Len(a) ELSE i

list_setitem(a, i, x) == [a EXCEPT ![list_index(a, i) + 1] = x]

list_reverse(a) == [j \in 1 .. Len(a) |-> a[Len(a) + 1 - j]]

\* list.__iadd__ extends in place through the list's own extend, not
\* through the subclass's override.
list_iadd(a, L) == a \o L

UnchangedButSL ==
    UNCHANGED <<os, hist, lastRemoved, oi, es, fields, inst, classes,
                osB, other, layout, obj, oi2, eql>>

DoAppend(x) ==
    /\ Len(sl.items) < MaxLen
    /\ LET r == SortedList_append(sl, x)
       IN  /\ sl' = r.self
           /\ op' = [name |-> "append", err |-> r.exc, x |-> x]
    /\ UnchangedButSL

DoInsert(i, x) ==
    /\ Len(sl.items) < MaxLen
    /\ LET r == SortedList_insert(sl, i, x)
       IN  /\ sl' = r.self
           /\ op' = [name |-> "insert", err |-> r.exc, i |-> i, x |-> x]
    /\ UnchangedButSL

DoExtend(L) ==
    /\ Len(sl.items) + Len(L) <= MaxLen
    /\ LET r == SortedList_extend(sl, L)
       IN  /\ sl' = r.self
           /\ op' = [name |-> "extend", err |-> r.exc, L |-> L]
    /\ UnchangedButSL

DoSetItem(i, x) ==
    /\ IF list_index(sl.items, i) \in 0 .. Len(sl.items) - 1
       THEN /\ sl' = [sl EXCEPT !.items = list_setitem(sl.items, i, x)]
            /\ op' = [name |-> "__setitem__", err |-> "none"]
       ELSE /\ sl' = sl
            /\ op' = [name |-> "__setitem__", err |-> "IndexError"]
    /\ UnchangedButSL

DoIAdd(L) ==
    /\ Len(sl.items) + Len(L) <= MaxLen
    /\ sl' = [sl EXCEPT !.items = list_iadd(sl.items, L)]
    /\ op' = [name |-> "__iadd__", err |-> "none"]
    /\ UnchangedButSL

DoReverse ==
    /\ sl' = [sl EXCEPT !.items = list_reverse(sl.items)]
    /\ op' = [name |-> "reverse", err |-> "none"]
    /\ UnchangedButSL

\* The indices tried for insert and item assignment.
Indices == -1 .. MaxLen

(***************************************************************************)
(* Python objects of the set family.  An object is [k, v]: k is its        *)
(* equality class (what == and hash see) and v tells apart objects that    *)
(* compare equal, as 1, 1.0 and True do.                                   *)
(***************************************************************************)
MaxKey == 3

Variants == {"a", "b"}

Objects == [k : 1 .. MaxKey, v : Variants]

PyEq(x, y) == x.k = y.k

\* hash(item): equal objects hash alike; the hash is an object of its own.
hash(item) == [k |-> item.k, v |-> "hash"]

\* A caller-supplied key function that is coarser than equality (a name
\* shared by different objects): objects 1 and 2 share key 1, and so on.
KeyFn(item) == [k |-> (item.k + 1) \div 2, v |-> "key"]

\* self.key(item): BaseOrderedSet.key is the identity, OrderedIndex stores
\* the function it was given, or hash.
key(self, item) ==
    CASE self.key = "item" -> item
      [] self.key = "hash" -> hash(item)
      [] self.key = "user" -> KeyFn(item)

\* collections.OrderedDict as the sequence of its entries [key, val].
dict_has(m, k) == \E i \in 1 .. Len(m) : PyEq(m[i].key, k)

dict_pos(m, k) == CHOOSE i \in 1 .. Len(m) : PyEq(m[i].key, k)

dict_get(m, k) == m[dict_pos(m, k)].val

\* m[k] = v: a new key goes to the end, a present key keeps its place and
\* its key object and takes the new value.
dict_set(m, k, v) ==
    IF dict_has(m, k)
    THEN [m EXCEPT ![dict_pos(m, k)].val = v]
    ELSE Append(m, [key |-> k, val |-> v])

\* A removal that fills the hole with the last entry.
dict_pop_swap(m, k) ==
    LET i == dict_pos(m, k)
    IN  IF i = Len(m) THEN SubSeq(m, 1, Len(m) - 1)
        ELSE SubSeq([m EXCEPT ![i] = m[Len(m)]], 1, Len(m) - 1)

\* m.pop(k) / del m[k] for a present key: the other entries keep their order.
dict_pop(m, k) ==
    LET i == dict_pos(m, k)
    IN  SubSeq(m, 1, i - 1) \o SubSeq(m, i + 1, Len(m))

(***************************************************************************)
(* BaseOrderedSet / OrderedSet (all.py 210-295)                            *)
(***************************************************************************)
BaseOrderedSet_init(keykind) == [map |-> <<>>, key |-> keykind]

\* add that stores the new element whether or not its key is present.
BaseOrderedSet_add_overwrite(self, item) ==
    [self EXCEPT !.map = dict_set(self.map, key(self, item), item)]

BaseOrderedSet_add(self, item) ==
    LET k == key(self, item)
    IN  IF ~dict_has(self.map, k)
        THEN [self EXCEPT !.map = dict_set(self.map, k, item)]
        ELSE self

BaseOrderedSet_discard(self, item) ==
    LET k == key(self, item)
    IN  IF dict_has(self.map, k)
        THEN [self EXCEPT !.map = dict_pop(self.map, k)]
        ELSE self

BaseOrderedSet_contains(self, item) == dict_has(self.map, key(self, item))

BaseOrderedSet_len(self) == Len(self.map)

\* iter(self): the stored values in the map's order.
BaseOrderedSet_iter(self) == [i \in 1 .. Len(self.map) |-> self.map[i].val]

\* remove that forgives a missing element, as discard does.
MutableSet_remove_lenient(self, item) ==
    Ret(BaseOrderedSet_discard(self, item), "none")

\* remove is not overridden: collections.MutableSet.remove raises KeyError
\* when the value is not in self and calls self.discard otherwise.
MutableSet_remove(self, item) ==
    IF ~BaseOrderedSet_contains(self, item)
    THEN Ret(self, "KeyError")
    ELSE Ret(BaseOrderedSet_discard(self, item), "none")

BaseOrderedSet_clear(self) == [self EXCEPT !.map = <<>>]

UnchangedButOS ==
    UNCHANGED <<sl, oi, es, fields, inst, classes,
                osB, other, layout, obj, oi2, eql>>

NoRemoval == [k |-> 0, mid |-> FALSE]

\* What a removal of item from os leaves in lastRemoved: the key removed
\* and whether an element followed it in the iteration order.
Removal(item) ==
    IF BaseOrderedSet_contains(os, item)
    THEN [k |-> item.k, mid |-> dict_pos(os.map, key(os, item)) < Len(os.map)]
    ELSE lastRemoved

\* os.add(x), with the call logged in hist.
MaxAdds == 4

OSAddLogged(x) ==
    /\ Len(hist) < MaxAdds
    /\ os' = BaseOrderedSet_add(os, x)
    /\ hist' = Append(hist, x)
    /\ op' = [name |-> "add", err |-> "none", arg |-> x]
    /\ UNCHANGED lastRemoved
    /\ UnchangedButOS

OSAdd(x) ==
    /\ os' = BaseOrderedSet_add(os, x)
    /\ op' = [name |-> "add", err |-> "none", arg |-> x]
    /\ UNCHANGED <<hist, lastRemoved>>
    /\ UnchangedButOS

OSDiscard(x) ==
    /\ os' = BaseOrderedSet_discard(os, x)
    /\ lastRemoved' = Removal(x)
    /\ op' = [name |-> "discard", err |-> "none", arg |-> x]
    /\ UNCHANGED hist
    /\ UnchangedButOS

OSRemove(x) ==
    /\ LET r == MutableSet_remove(os, x)
       IN  /\ os' = r.self
           /\ op' = [name |-> "remove", err |-> r.exc, arg |-> x]
    /\ lastRemoved' = Removal(x)
    /\ UNCHANGED hist
    /\ UnchangedButOS

OSClear ==
    /\ os' = BaseOrderedSet_clear(os)
    /\ op' = [name |-> "clear", err |-> "none", arg |-> [k |-> 0, v |-> "a"]]
    /\ UNCHANGED <<hist, lastRemoved>>
    /\ UnchangedButOS

NextOrderedSetAdd == \E x \in Objects : OSAddLogged(x)

NextOrderedSet ==
    \/ \E x \in Objects : OSAdd(x)
    \/ \E x \in Objects : OSDiscard(x)
    \/ \E x \in Objects : OSRemove(x)
    \/ OSClear

(***************************************************************************)
(* OrderedIndex / StrictOrderedIndex (all.py 345-378)                      *)
(***************************************************************************)
\* OrderedIndex(key=f): self.key = key or hash.
OrderedIndex_init(keykind) == BaseOrderedSet_init(keykind)

\* def __setitem__(self, item): the method takes the element alone and
\* derives the key, so binding its parameters fails with TypeError for any
\* other number of arguments.  args are the positional arguments after self.
OrderedIndex_setitem(self, args) ==
    IF Len(args) # 1 THEN Ret(self, "TypeError")
    ELSE LET item == args[1]
         IN  Ret([self EXCEPT !.map = dict_set(self.map, key(self, item), item)], "none")

StrictOrderedIndex_setitem(self, args) ==
    IF Len(args) # 1 THEN Ret(self, "TypeError")
    ELSE IF BaseOrderedSet_contains(self, args[1]) THEN Ret(self, "ValueError")
    ELSE OrderedIndex_setitem(self, args)

\* no index has been returned yet
NoIndex == [exists |-> FALSE, map |-> <<>>, key |-> "hash"]

UnchangedButOI ==
    UNCHANGED <<sl, os, hist, lastRemoved, es, fields, inst, classes,
                osB, other, layout, obj, oi2, eql>>

\* The keys a caller can name: those the key function of the index yields.
IndexKeys == { key(oi, x) : x \in Objects }

\* index.add(item): BaseOrderedSet.add, inherited.
OIAdd(x) ==
    /\ oi' = BaseOrderedSet_add(oi, x)
    /\ op' = [name |-> "add", err |-> "none", args |-> <<x>>]
    /\ UnchangedButOI

OIDiscard(x) ==
    /\ oi' = BaseOrderedSet_discard(oi, x)
    /\ op' = [name |-> "discard", err |-> "none", args |-> <<x>>]
    /\ UnchangedButOI

\* index[k] = v: the interpreter calls type(index).__setitem__(index, k, v).
OISubscriptAssign(k, v) ==
    /\ LET r == StrictOrderedIndex_setitem(oi, <<k, v>>)
       IN  /\ oi' = r.self
           /\ op' = [name |-> "index[k]=v", err |-> r.exc, args |-> <<k, v>>]
    /\ UnchangedButOI

\* index.__setitem__(item): the method called by name with one argument.
OISetItemCall(x) ==
    /\ LET r == StrictOrderedIndex_setitem(oi, <<x>>)
       IN  /\ oi' = r.self
           /\ op' = [name |-> "__setitem__", err |-> r.exc, args |-> <<x>>]
    /\ UnchangedButOI

NextStrictIndex ==
    \/ \E x \in Objects : OIAdd(x)
    \/ \E x \in Objects : OIDiscard(x)
    \/ \E k \in IndexKeys, v \in Objects : OISubscriptAssign(k, v)
    \/ \E x \in Objects : OISetItemCall(x)

(***************************************************************************)
(* ExtendedSet (all.py 298-338)                                            *)
(***************************************************************************)
\* The built-in set: at most one object of each equality class.
set_has(S, x) == \E y \in S : PyEq(x, y)

set_add(S, x) == IF set_has(S, x) THEN S ELSE S \cup {x}

set_discard(S, x) == { y \in S : ~PyEq(x, y) }

\* ExtendedSet(key=f): self._set, self._index and self._key (hash unless
\* the caller gives a function).
ExtendedSet_init(keykind) == [set |-> {}, index |-> {}, key |-> keykind]

ExtendedSet_contains(self, item) == set_has(self.index, key(self, item))

ExtendedSet_len(self) == Cardinality(self.set)

ExtendedSet_add(self, item) ==
    [self EXCEPT !.index = set_add(self.index, key(self, item)),
                 !.set = set_add(self.set, item)]

ExtendedSet_discard(self, item) ==
    [self EXCEPT !.index = set_discard(self.index, key(self, item)),
                 !.set = set_discard(self.set, item)]

\* remove: self._index.remove raises KeyError first; self._set.remove
\* raises it after the index has been changed.
ExtendedSet_remove(self, item) ==
    IF ~set_has(self.index, key(self, item)) THEN Ret(self, "KeyError")
    ELSE LET s1 == [self EXCEPT !.index = set_discard(self.index, key(self, item))]
         IN  IF ~set_has(self.set, item) THEN Ret(s1, "KeyError")
             ELSE Ret([s1 EXCEPT !.set = set_discard(self.set, item)], "none")

ExtendedSet_clear(self) == [self EXCEPT !.index = {}, !.set = {}]

UnchangedButES ==
    UNCHANGED <<sl, os, hist, lastRemoved, oi, fields, inst, classes,
                osB, other, layout, obj, oi2, eql>>

ESAdd(x) ==
    /\ es' = ExtendedSet_add(es, x)
    /\ op' = [name |-> "add", err |-> "none", arg |-> x]
    /\ UnchangedButES

ESDiscard(x) ==
    /\ es' = ExtendedSet_discard(es, x)
    /\ op' = [name |-> "discard", err |-> "none", arg |-> x]
    /\ UnchangedButES

ESRemove(x) ==
    /\ LET r == ExtendedSet_remove(es, x)
       IN  /\ es' = r.self
           /\ op' = [name |-> "remove", err |-> r.exc, arg |-> x]
    /\ UnchangedButES

ESClear ==
    /\ es' = ExtendedSet_clear(es)
    /\ op' = [name |-> "clear", err |-> "none", arg |-> [k |-> 0, v |-> "a"]]
    /\ UnchangedButES

NextExtendedSet ==
    \/ \E x \in Objects : ESAdd(x)
    \/ \E x \in Objects : ESDiscard(x)
    \/ \E x \in Objects : ESRemove(x)
    \/ ESClear

(***************************************************************************)
(* Values and types of the record framework.  A value is [t, x]: t is its  *)
(* type and x its content.  An int holds the number x; a str holds the     *)
(* decimal numeral of x when x >= 0 and a non-numeric text when x = -1; a  *)
(* bool is an instance of the subclass bool of int; a list is a value of a *)
(* type no field of the model accepts.                                     *)
(***************************************************************************)
MaxInt == 1

None == [t |-> "NoneType", x |-> 0]

IntVal(n) == [t |-> "int", x |-> n]

StrVal(n) == [t |-> "str", x |-> n]

\* True, an instance of bool, which is a subclass of int.
BoolVal == [t |-> "bool", x |-> 1]

ListVal == [t |-> "list", x |-> 0]

\* A function object and a class object, as values.
FunctionVal == [t |-> "function", x |-> 0]

TypeVal == [t |-> "type", x |-> 0]

InputVals ==
    {None, ListVal, BoolVal} \cup { IntVal(n) : n \in 0 .. MaxInt }
                    \cup { StrVal(n) : n \in -1 .. MaxInt }

Result(val, exc) == [val |-> val, exc |-> exc]

\* T(v), the call of a type on a value: int parses numerals and rejects
\* other text with ValueError and other types with TypeError; str formats
\* anything.
Call(T, v) ==
    CASE T = "int" ->
            (CASE v.t = "int" -> Result(v, "none")
               [] v.t = "bool" -> Result(IntVal(v.x), "none")
               [] v.t = "str" -> IF v.x >= 0 THEN Result(IntVal(v.x), "none")
                                 ELSE Result(None, "ValueError")
               [] OTHER -> Result(None, "TypeError"))
      [] T = "str" ->
            (CASE v.t = "str" -> Result(v, "none")
               [] v.t = "int" -> Result(StrVal(v.x), "none")
               [] OTHER -> Result(StrVal(-1), "none"))

\* T(), the call of a type without arguments: int() is 0, str() is ''.
Call0(T) == IF T = "int" THEN IntVal(0) ELSE StrVal(-1)

SeqToSet(q) == { q[i] : i \in 1 .. Len(q) }

\* isinstance(v, types): the type of v is one of types or a subclass of one.
isinstance(v, types) ==
    \/ v.t \in SeqToSet(types)
    \/ v.t = "bool" /\ "int" \in SeqToSet(types)

(***************************************************************************)
(* Field (all.py 439-475).  A default is Void (required), None, a value,   *)
(* one of the types (a class object, callable) or another callable.        *)
(***************************************************************************)
Void == [kind |-> "Void", val |-> None, ty |-> ""]

NoDefault == [kind |-> "None", val |-> None, ty |-> ""]

Literal(v) == [kind |-> "value", val |-> v, ty |-> ""]

TypeDefault(T) == [kind |-> "type", val |-> None, ty |-> T]

\* A zero-argument function that returns v.
Lambda(v) == [kind |-> "callable", val |-> v, ty |-> ""]

\* Field.__init__: a type that is not a tuple is wrapped in one (the model
\* passes tuples); coerce with several types raises ValueError, so such a
\* field is never declared.
Field(type, default, coerce) == [type |-> type, default |-> default, coerce |-> coerce]

Field_ok(f) == ~(f.coerce /\ Len(f.type) > 1)

\* The declarations the record types of the model are built from.
FieldDecls ==
    { f \in { Field(<<"int">>, Void, FALSE),
              Field(<<"int">>, NoDefault, FALSE),
              Field(<<"int">>, Literal(IntVal(1)), FALSE),
              Field(<<"int">>, Void, TRUE),
              Field(<<"str">>, NoDefault, TRUE),
              Field(<<"int">>, TypeDefault("int"), FALSE),
              Field(<<"int">>, Lambda(IntVal(1)), FALSE),
              Field(<<"int", "str">>, NoDefault, FALSE),
              Field(<<"int", "str">>, NoDefault, TRUE) } : Field_ok(f) }

\* The field names of the record type under test, in the iteration order
\* of its _fields dict.
FieldOrder == <<"a", "b">>

FieldNames == SeqToSet(FieldOrder)

(***************************************************************************)
(* Struct (all.py 522-674)                                                 *)
(***************************************************************************)
\* _getdefault that yields None for a required field in every mode.
Struct_getdefault_lenient(field, relaxrequired) ==
    IF field.default.kind = "type" /\ field.default.ty \in SeqToSet(field.type)
    THEN Result(Call0(field.default.ty), "none")
    ELSE IF field.default.kind = "Void" THEN Result(None, "none")
    ELSE IF field.default.kind = "value" THEN Result(field.default.val, "none")
    ELSE IF field.default.kind = "type" THEN Result(TypeVal, "none")
    ELSE IF field.default.kind = "callable" THEN Result(FunctionVal, "none")
    ELSE Result(None, "none")

\* _getdefault: a default that is one of the field's types is called; Void
\* raises unless relaxrequired; anything else, a callable included, is the
\* value as it stands.
Struct_getdefault(field, relaxrequired) ==
    IF field.default.kind = "type" /\ field.default.ty \in SeqToSet(field.type)
    THEN Result(Call0(field.default.ty), "none")
    ELSE IF field.default.kind = "Void"
    THEN IF relaxrequired THEN Result(None, "none")
         ELSE Result(None, "TypeError(required)")
    ELSE IF field.default.kind = "value" THEN Result(field.default.val, "none")
    ELSE IF field.default.kind = "type" THEN Result(TypeVal, "none")
    ELSE IF field.default.kind = "callable" THEN Result(FunctionVal, "none")
    ELSE Result(None, "none")

\* _check_field_type that lets every exception but TypeError escape the
\* conversion, as Field.adapt does.
Struct_check_field_type_narrow(field, value) ==
    IF Len(field.type) > 0 /\ value # None /\ ~isinstance(value, field.type)
    THEN IF field.coerce
         THEN LET c == Call(field.type[1], value)
              IN  IF c.exc = "none" THEN c
                  ELSE IF c.exc = "TypeError" THEN Result(value, "TypeError(coercion)")
                  ELSE Result(value, c.exc)
         ELSE Result(value, "TypeError(expected)")
    ELSE Result(value, "none")

\* _check_field_type: None and instances of the accepted types pass; other
\* values are converted by the first type when coerce is set, any exception
\* of the conversion becoming TypeError, and are rejected otherwise.
Struct_check_field_type(field, value) ==
    IF Len(field.type) > 0 /\ value # None /\ ~isinstance(value, field.type)
    THEN IF field.coerce
         THEN LET c == Call(field.type[1], value)
              IN  IF c.exc = "none" THEN c
                  ELSE Result(value, "TypeError(coercion)")
         ELSE Result(value, "TypeError(expected)")
    ELSE Result(value, "none")

\* __setattr__ that stores the value as it is given.
Struct_setattr_unchecked(cls, attrs, name, value) ==
    Ret([attrs EXCEPT ![name] = value], "none")

\* __setattr__ on a declared field: attrs are the instance's field values,
\* cls its type's _fields.
Struct_setattr(cls, attrs, name, value) ==
    LET c == Struct_check_field_type(cls[name], value)
    IN  IF c.exc # "none" THEN Ret(attrs, c.exc)
        ELSE Ret([attrs EXCEPT ![name] = c.val], "none")

\* values.get(name)
kwargs_get(values, name) == IF name \in DOMAIN values THEN values[name] ELSE None

\* _init_fields: the loop over cls._fields from its i-th entry on.
RECURSIVE Struct_init_fields(_, _, _, _, _, _)
Struct_init_fields(cls, attrs, i, setdefaults, relaxrequired, values) ==
    IF i > Len(FieldOrder) THEN Ret(attrs, "none")
    ELSE LET name == FieldOrder[i]
             field == cls[name]
             given == kwargs_get(values, name)
             d == IF given = None /\ field.default.kind # "None" /\ setdefaults
                  THEN Struct_getdefault(field, relaxrequired)
                  ELSE Result(given, "none")
         IN  IF d.exc # "none" THEN Ret(attrs, d.exc)
             ELSE LET r == Struct_setattr(cls, attrs, name, d.val)
                  IN  IF r.exc # "none" THEN r
                      ELSE Struct_init_fields(cls, r.self, i + 1, setdefaults,
                                              relaxrequired, values)

NoAttrs == [f \in FieldNames |-> None]

NoInstance == [exists |-> FALSE, attrs |-> NoAttrs]

Kwargs == UNION { [S -> InputVals] : S \in SUBSET FieldNames }

UnchangedButStruct ==
    UNCHANGED <<sl, os, hist, lastRemoved, oi, es, fields, classes,
                osB, other, layout, obj, oi2, eql>>

\* inst = cls(_setdefaults_=sd, _relaxrequired_=rr, **kw), the first call
\* of a behaviour: a constructor that raises makes no instance.
StructInit(sd, rr, kw) ==
    /\ ~inst.exists /\ op = NoOp
    /\ LET r == Struct_init_fields(fields, NoAttrs, 1, sd, rr, kw)
       IN  /\ inst' = IF r.exc = "none" THEN [exists |-> TRUE, attrs |-> r.self]
                      ELSE inst
           /\ op' = [name |-> "__init__", err |-> r.exc, kw |-> kw,
                     setdefaults |-> sd, relaxrequired |-> rr]
    /\ UnchangedButStruct

\* inst.name = value
StructSetAttr(name, value) ==
    /\ inst.exists
    /\ LET r == Struct_setattr(fields, inst.attrs, name, value)
       IN  /\ inst' = [inst EXCEPT !.attrs = r.self]
           /\ op' = [name |-> "__setattr__", err |-> r.exc, field |-> name,
                     value |-> value]
    /\ UnchangedButStruct

NextStruct ==
    \/ \E sd, rr \in BOOLEAN, kw \in Kwargs : StructInit(sd, rr, kw)
    \/ \E name \in FieldNames, value \in InputVals : StructSetAttr(name, value)

(***************************************************************************)
(* StructMeta (all.py 478-519).  A record type is [bases, own, mro,        *)
(* fields]: its base types, the Field objects declared in its body, its    *)
(* method resolution order and its merged table cls._fields.  Types are    *)
(* named by their position in classes; Struct itself is type 1.  The merge *)
(* never looks inside a Field, so a Field object is the pair of the type   *)
(* whose body created it and the name it was bound to.                     *)
(***************************************************************************)
MaxClasses == 4

MetaNames == {"f", "g"}

FieldObject(c, n) == [owner |-> c, name |-> n]

EmptyTable == [n \in {} |-> FieldObject(0, n)]

StructClass == [bases |-> <<>>, own |-> EmptyTable, mro |-> <<1>>, fields |-> EmptyTable]

\* dict.update: d with the entries of e added or replaced.
dict_update(d, e) ==
    [n \in DOMAIN d \cup DOMAIN e |-> IF n \in DOMAIN e THEN e[n] ELSE d[n]]

Drop(q, h) == SelectSeq(q, LAMBDA e : e # h)

InTail(q, h) == \E i \in 2 .. Len(q) : q[i] = h

\* The C3 merge of type.mro(): the first head that is in no tail is taken
\* next; <<0>> marks that there is none (TypeError, no consistent order).
RECURSIVE c3_merge(_)
c3_merge(lists) ==
    LET live == SelectSeq(lists, LAMBDA q : q # <<>>)
    IN  IF live = <<>> THEN <<>>
        ELSE LET good == { i \in 1 .. Len(live) :
                             \A j \in 1 .. Len(live) : ~InTail(live[j], live[i][1]) }
             IN  IF good = {} THEN <<0>>
                 ELSE LET i == CHOOSE i \in good : \A j \in good : i <= j
                          h == live[i][1]
                      IN  <<h>> \o c3_merge([j \in 1 .. Len(live) |-> Drop(live[j], h)])

\* cls.mro() of the new type c with the given bases.
type_mro(cs, c, bases) ==
    <<c>> \o c3_merge([i \in 1 .. Len(bases) |-> cs[bases[i]].mro] \o <<bases>>)

\* The order as it is, not reversed.
not_reversed(q) == q

reversed(q) == [i \in 1 .. Len(q) |-> q[Len(q) + 1 - i]]

\* The loop of StructMeta.__new__ over reversed(cls.mro()) from its i-th
\* entry on: the type's own fields for the type itself, get_ownfields() for
\* every other record type.
\* The same loop, an entry already in the table kept instead of replaced.
RECURSIVE merge_fields_keep(_, _, _, _, _, _)
merge_fields_keep(cs, c, myfields, order, i, acc) ==
    IF i > Len(order) THEN acc
    ELSE LET parent == order[i]
             own == IF parent = c THEN myfields ELSE cs[parent].own
         IN  merge_fields_keep(cs, c, myfields, order, i + 1, dict_update(own, acc))

RECURSIVE merge_fields(_, _, _, _, _, _)
merge_fields(cs, c, myfields, order, i, acc) ==
    IF i > Len(order) THEN acc
    ELSE LET parent == order[i]
             own == IF parent = c THEN myfields ELSE cs[parent].own
         IN  merge_fields(cs, c, myfields, order, i + 1, dict_update(acc, own))

\* StructMeta.__new__(name, bases, clsdict): the new record type is added
\* to cs; type.__new__ raises TypeError when the bases have no consistent
\* method resolution order.
StructMeta_new(cs, bases, myfields) ==
    LET c == Len(cs) + 1
        mro == type_mro(cs, c, bases)
    IN  IF 0 \in SeqToSet(mro) THEN Ret(cs, "TypeError")
        ELSE Ret(Append(cs, [bases |-> bases, own |-> myfields, mro |-> mro,
                             fields |-> merge_fields(cs, c, myfields, reversed(mro),
                                                     1, EmptyTable)]),
                 "none")

\* The lists of at most n distinct record types of S: the bases a class
\* statement can name (a repeated base is a TypeError).
RECURSIVE DistinctSeqs(_, _)
DistinctSeqs(S, n) ==
    IF n = 0 THEN {<<>>}
    ELSE LET shorter == DistinctSeqs(S, n - 1)
         IN  shorter \cup { Append(q, x) : q \in { r \in shorter : Len(r) = n - 1 },
                                           x \in S }

MaxBases == 2

BaseLists(cs) ==
    { q \in DistinctSeqs(1 .. Len(cs), Min(MaxBases, Len(cs))) :
        q # <<>> /\ \A i, j \in 1 .. Len(q) : i # j => q[i] # q[j] }

UnchangedButClasses ==
    UNCHANGED <<sl, os, hist, lastRemoved, oi, es, fields, inst,
                osB, other, layout, obj, oi2, eql>>

\* class X(*bases): with a Field bound to each name of names.
DefineClass(bases, names) ==
    /\ LET c == Len(classes) + 1
           r == StructMeta_new(classes, bases, [n \in names |-> FieldObject(c, n)])
       IN  /\ classes' = r.self
           /\ op' = [name |-> "class", err |-> r.exc]
    /\ UnchangedButClasses

NextMeta ==
    /\ Len(classes) < MaxClasses
    /\ \E bases \in BaseLists(classes), names \in SUBSET MetaNames :
            DefineClass(bases, names)

(***************************************************************************)
(* Struct: setdefaults, update, copy and comparison (all.py 577-612).      *)
(* The module is run in the interpreter's default mode, in which           *)
(* __debug__ is true and Struct.__setattr__ is defined.                    *)
(***************************************************************************)
\* setdefaults that returns after the first field it has filled.
RECURSIVE Struct_setdefaults_first(_, _, _)
Struct_setdefaults_first(cls, attrs, i) ==
    IF i > Len(FieldOrder) THEN Ret(attrs, "none")
    ELSE LET name == FieldOrder[i]
             field == cls[name]
         IN  IF attrs[name] = None /\ field.default.kind # "None"
             THEN LET d == Struct_getdefault(field, FALSE)
                  IN  IF d.exc # "none" THEN Ret(attrs, d.exc)
                      ELSE Struct_setattr(cls, attrs, name, d.val)
             ELSE Struct_setdefaults_first(cls, attrs, i + 1)

\* bool(v) for the values written to fields: None and the number 0 are
\* false.
PyBool(v) == ~(v = None \/ (v.t = "int" /\ v.x = 0))

\* setdefaults that takes every false value for a missing one.
RECURSIVE Struct_setdefaults_falsy(_, _, _)
Struct_setdefaults_falsy(cls, attrs, i) ==
    IF i > Len(FieldOrder) THEN Ret(attrs, "none")
    ELSE LET name == FieldOrder[i]
             field == cls[name]
         IN  IF ~PyBool(attrs[name]) /\ field.default.kind # "None"
             THEN LET d == Struct_getdefault(field, FALSE)
                  IN  IF d.exc # "none" THEN Ret(attrs, d.exc)
                      ELSE LET r == Struct_setattr(cls, attrs, name, d.val)
                           IN  IF r.exc # "none" THEN r
                               ELSE Struct_setdefaults_falsy(cls, r.self, i + 1)
             ELSE Struct_setdefaults_falsy(cls, attrs, i + 1)

\* setdefaults: the loop over cls._fields from its i-th entry on.  A field
\* whose value is None and whose default is not None gets _getdefault
\* (relaxrequired left at False) through setattr; an exception ends the
\* loop with the fields written so far.
RECURSIVE Struct_setdefaults(_, _, _)
Struct_setdefaults(cls, attrs, i) ==
    IF i > Len(FieldOrder) THEN Ret(attrs, "none")
    ELSE LET name == FieldOrder[i]
             field == cls[name]
         IN  IF attrs[name] = None /\ field.default.kind # "None"
             THEN LET d == Struct_getdefault(field, FALSE)
                  IN  IF d.exc # "none" THEN Ret(attrs, d.exc)
                      ELSE LET r == Struct_setattr(cls, attrs, name, d.val)
                           IN  IF r.exc # "none" THEN r
                               ELSE Struct_setdefaults(cls, r.self, i + 1)
             ELSE Struct_setdefaults(cls, attrs, i + 1)

\* The loop of update over values.items() from its i-th item on; items are
\* <<name, value>> pairs in keyword order.
RECURSIVE Struct_update_items(_, _, _, _)
Struct_update_items(cls, attrs, items, i) ==
    IF i > Len(items) THEN Ret(attrs, "none")
    ELSE LET r == Struct_setattr(cls, attrs, items[i][1], items[i][2])
         IN  IF r.exc # "none" THEN r
             ELSE Struct_update_items(cls, r.self, items, i + 1)

\* update(*args, **kwargs): values.update(values, *args, **kwargs) passes
\* dict.update two positional arguments when args is not empty, which
\* raises TypeError; nargs is the length of args.
Struct_update(cls, attrs, nargs, items) ==
    IF nargs > 0 THEN Ret(attrs, "TypeError")
    ELSE Struct_update_items(cls, attrs, items, 1)

\* copy: cls(**{f: getattr(obj, f) for f in cls._fields}), a construction
\* in the default mode with the field values as keywords.
Struct_copy(cls, attrs) == Struct_init_fields(cls, NoAttrs, 1, TRUE, FALSE, attrs)

\* Struct defines no __eq__: == is object.__eq__, the identity of the two
\* operands.  Instances are named "inst" and "other".
object_eq(a, b) == a = b

\* The keyword lists of update: one keyword with any value, or one per
\* field name in either order, with a value int fields accept and a value
\* no field accepts.
KwItems ==
    {<<>>} \cup { <<<<n, v>>>> : n \in FieldNames, v \in InputVals }
           \cup { q \in { <<<<n, v>>, <<m, w>>>> : n \in FieldNames, m \in FieldNames,
                                                  v \in {IntVal(0), ListVal},
                                                  w \in {IntVal(0), ListVal} } :
                       q[1][1] # q[2][1] }

UnchangedButInst ==
    UNCHANGED <<sl, os, hist, lastRemoved, oi, es, fields, classes,
                osB, other, layout, obj, oi2, eql>>

UnchangedButOther ==
    UNCHANGED <<sl, os, hist, lastRemoved, oi, es, fields, classes,
                osB, inst, layout, obj, oi2, eql>>

\* inst.setdefaults(); op.prev is the call made before it and its outcome.
StructSetDefaults ==
    /\ inst.exists
    /\ LET r == Struct_setdefaults(fields, inst.attrs, 1)
       IN  /\ inst' = [inst EXCEPT !.attrs = r.self]
           /\ op' = [name |-> "setdefaults", err |-> r.exc,
                     prev |-> [name |-> op.name, err |-> op.err]]
    /\ UnchangedButInst

\* inst.update(*args, **kwargs)
StructUpdate(nargs, items) ==
    /\ inst.exists
    /\ LET r == Struct_update(fields, inst.attrs, nargs, items)
       IN  /\ inst' = [inst EXCEPT !.attrs = r.self]
           /\ op' = [name |-> "update", err |-> r.exc, nargs |-> nargs]
    /\ UnchangedButInst

\* other = inst.copy(): a copy that raises makes no instance.
StructCopy ==
    /\ inst.exists /\ ~other.exists
    /\ LET r == Struct_copy(fields, inst.attrs)
       IN  /\ other' = IF r.exc = "none" THEN [exists |-> TRUE, attrs |-> r.self]
                       ELSE other
           /\ op' = [name |-> "copy", err |-> r.exc]
    /\ UnchangedButOther

\* other = cls(**kw), a second instance built in the default mode.
StructInitOther(kw) ==
    /\ inst.exists /\ ~other.exists
    /\ LET r == Struct_init_fields(fields, NoAttrs, 1, TRUE, FALSE, kw)
       IN  /\ other' = IF r.exc = "none" THEN [exists |-> TRUE, attrs |-> r.self]
                       ELSE other
           /\ op' = [name |-> "other.__init__", err |-> r.exc]
    /\ UnchangedButOther

\* other.name = value
StructSetAttrOther(name, value) ==
    /\ other.exists
    /\ LET r == Struct_setattr(fields, other.attrs, name, value)
       IN  /\ other' = [other EXCEPT !.attrs = r.self]
           /\ op' = [name |-> "other.__setattr__", err |-> r.exc, field |-> name,
                     value |-> value]
    /\ UnchangedButOther

\* a == b for two existing instances
StructEq(a, b) ==
    /\ inst.exists /\ other.exists
    /\ op' = [name |-> "__eq__", err |-> "none", a |-> a, b |-> b,
              result |-> object_eq(a, b)]
    /\ UNCHANGED <<sl, os, hist, lastRemoved, oi, es, fields, classes,
                   osB, inst, other, layout, obj, oi2, eql>>

NextStructOps ==
    \/ \E sd, rr \in BOOLEAN, kw \in Kwargs : StructInit(sd, rr, kw)
    \/ \E name \in FieldNames, value \in InputVals : StructSetAttr(name, value)
    \/ \E items \in KwItems : StructUpdate(0, items)
    \/ StructUpdate(1, <<>>)
    \/ StructSetDefaults

NextStructPair ==
    \/ \E sd, rr \in BOOLEAN, kw \in Kwargs : StructInit(sd, rr, kw)
    \/ \E name \in FieldNames, value \in InputVals : StructSetAttr(name, value)
    \/ StructCopy
    \/ \E kw \in Kwargs : StructInitOther(kw)
    \/ \E name \in FieldNames, value \in InputVals : StructSetAttrOther(name, value)
    \/ \E a, b \in {"inst", "other"} : StructEq(a, b)

(***************************************************************************)
(* use_slots (all.py 479-500) and the instance layout type.__new__ gives   *)
(* a record type.  For each type, layout holds [slots, dict, solid]: slots *)
(* is the marker attribute '<module>.<name>_slots' that __new__ sets when  *)
(* use_slots is true; dict tells whether instances have a __dict__; solid  *)
(* is the type whose __slots__ fixed the memory layout of the instances    *)
(* (1, Struct, when no type of the ancestry has added a slot).  Struct     *)
(* itself declares __slots__ = () and is given no marker.                  *)
(***************************************************************************)
StructLayout == [slots |-> FALSE, dict |-> FALSE, solid |-> 1]

\* The values of the use_slots keyword of a class statement.
UseSlots == {"None", "True", "False"}

\* The use_slots the class is built with: when the keyword is None, it is
\* true if one of the bases carries its own marker.
StructMeta_use_slots(lay, bases, use_slots) ==
    IF use_slots = "None"
    THEN \E i \in 1 .. Len(bases) : lay[bases[i]].slots
    ELSE use_slots = "True"

\* The solid bases of the bases, and whether two of them are unrelated
\* (type.__new__ raises TypeError: multiple bases have instance lay-out
\* conflict).
SolidBases(lay, bases) == { lay[bases[i]].solid : i \in 1 .. Len(bases) }

LayoutConflict(cs, lay, bases) ==
    \E s, t \in SolidBases(lay, bases) :
        s \notin SeqToSet(cs[t].mro) /\ t \notin SeqToSet(cs[s].mro)

best_base(cs, lay, bases) ==
    CHOOSE s \in SolidBases(lay, bases) :
        \A t \in SolidBases(lay, bases) : t \in SeqToSet(cs[s].mro)

\* StructMeta.__new__ with the use_slots keyword: the record type as
\* StructMeta_new builds it, and its layout.  With use_slots true the
\* class body gets __slots__ = the names of its own fields; without it the
\* body has no __slots__ and the instances get a __dict__.  Instances also
\* have a __dict__ when those of a base have one.
StructMeta_new_slots(cs, lay, bases, myfields, use_slots) ==
    LET r == StructMeta_new(cs, bases, myfields)
        c == Len(cs) + 1
        flag == StructMeta_use_slots(lay, bases, use_slots)
    IN  IF r.exc # "none" \/ LayoutConflict(cs, lay, bases)
        THEN [classes |-> cs, layout |-> lay, exc |-> "TypeError"]
        ELSE [classes |-> r.self,
              layout |-> Append(lay,
                  [slots |-> flag,
                   dict |-> ~flag \/ \E i \in 1 .. Len(bases) : lay[bases[i]].dict,
                   solid |-> IF flag /\ DOMAIN myfields # {} THEN c
                             ELSE best_base(cs, lay, bases)]),
              exc |-> "none"]

\* object.__setattr__ for a name the type has no descriptor for: stored in
\* the instance's __dict__, AttributeError when there is none.
object_setattr(hasdict, d, name, value) ==
    IF hasdict THEN Ret(dict_update(d, [n \in {name} |-> value]), "none")
    ELSE Ret(d, "AttributeError")

EmptyDict == [n \in {} |-> None]

NoObject == [cls |-> 0, dict |-> EmptyDict]

\* The attribute names written to an instance, and the values written.
AttrNames == MetaNames \cup {"spam"}

AdhocVals == {IntVal(0), ListVal}

UnchangedButObj ==
    UNCHANGED <<sl, os, hist, lastRemoved, oi, es, fields, inst,
                osB, other, oi2, eql>>

\* class X(*bases, use_slots=u): with a Field bound to each name of names.
DefineSlotsClass(bases, names, u) ==
    /\ obj = NoObject
    /\ LET c == Len(classes) + 1
           r == StructMeta_new_slots(classes, layout, bases,
                                     [n \in names |-> FieldObject(c, n)], u)
       IN  /\ classes' = r.classes
           /\ layout' = r.layout
           /\ op' = [name |-> "class", err |-> r.exc]
    /\ obj' = obj
    /\ UnchangedButObj

\* obj = X() for a record type X defined by a class statement, whose
\* fields are declared with the default None, so that the constructor
\* returns.
NewObject(c) ==
    /\ obj = NoObject
    /\ obj' = [cls |-> c, dict |-> EmptyDict]
    /\ op' = [name |-> "X()", err |-> "none"]
    /\ UNCHANGED <<classes, layout>>
    /\ UnchangedButObj

\* obj.name = value for a name that is not in cls._fields: __setattr__
\* finds no field and calls object.__setattr__.
ObjSetAttr(name, value) ==
    /\ obj # NoObject
    /\ name \notin DOMAIN classes[obj.cls].fields
    /\ LET r == object_setattr(layout[obj.cls].dict, obj.dict, name, value)
       IN  /\ obj' = [obj EXCEPT !.dict = r.self]
           /\ op' = [name |-> "obj.__setattr__", err |-> r.exc, attr |-> name,
                     value |-> value]
    /\ UNCHANGED <<classes, layout>>
    /\ UnchangedButObj

NextSlots ==
    \/ /\ Len(classes) < MaxClasses
       /\ \E bases \in BaseLists(classes), names \in SUBSET MetaNames, u \in UseSlots :
              DefineSlotsClass(bases, names, u)
    \/ \E c \in 2 .. Len(classes) : NewObject(c)
    \/ \E name \in AttrNames, value \in AdhocVals : ObjSetAttr(name, value)

(***************************************************************************)
(* The same calls on a plain OrderedIndex (all.py 345-371): oi is then an  *)
(* OrderedIndex and __setitem__ is OrderedIndex.__setitem__.               *)
(***************************************************************************)
\* index[k] = v on an OrderedIndex: the interpreter calls
\* type(index).__setitem__(index, k, v).
IXSubscriptAssign(k, v) ==
    /\ LET r == OrderedIndex_setitem(oi, <<k, v>>)
       IN  /\ oi' = r.self
           /\ op' = [name |-> "index[k]=v", err |-> r.exc, args |-> <<k, v>>]
    /\ UnchangedButOI

\* index.__setitem__(item) on an OrderedIndex.
IXSetItemCall(x) ==
    /\ LET r == OrderedIndex_setitem(oi, <<x>>)
       IN  /\ oi' = r.self
           /\ op' = [name |-> "__setitem__", err |-> r.exc, args |-> <<x>>]
    /\ UnchangedButOI

NextIndex ==
    \/ \E x \in Objects : OIAdd(x)
    \/ \E x \in Objects : OIDiscard(x)
    \/ \E k \in IndexKeys, v \in Objects : IXSubscriptAssign(k, v)
    \/ \E x \in Objects : IXSetItemCall(x)

(***************************************************************************)
(* The set operations of BaseOrderedSet (all.py 210, 230-233): the         *)
(* operators |, &, - and ^ are the mixin methods of collections.Set, the   *)
(* *_update methods are bound to the in-place operators of                 *)
(* collections.MutableSet.  Both iterate their operands and call           *)
(* __contains__, add and discard of the ordered set.                       *)
(***************************************************************************)
\* update = MutableSet.__ior__: for value in it: self.add(value), from the
\* i-th value on.
RECURSIVE BaseOrderedSet_update(_, _, _)
BaseOrderedSet_update(self, it, i) ==
    IF i > Len(it) THEN self
    ELSE BaseOrderedSet_update(BaseOrderedSet_add(self, it[i]), it, i + 1)

\* for value in it: self.discard(value), from the i-th value on.
RECURSIVE discard_each(_, _, _)
discard_each(self, it, i) ==
    IF i > Len(it) THEN self
    ELSE discard_each(BaseOrderedSet_discard(self, it[i]), it, i + 1)

\* Set._from_iterable: cls(it), a new set filled by update.
Set_from_iterable(self, it) ==
    BaseOrderedSet_update(BaseOrderedSet_init(self.key), it, 1)

\* (value for value in a if value in b) and (... if value not in b)
ValuesIn(a, b) ==
    SelectSeq(BaseOrderedSet_iter(a), LAMBDA v : BaseOrderedSet_contains(b, v))

ValuesNotIn(a, b) ==
    SelectSeq(BaseOrderedSet_iter(a), LAMBDA v : ~BaseOrderedSet_contains(b, v))

\* Set.__or__: the chain of self and other.
Set_or(self, other_) ==
    Set_from_iterable(self, BaseOrderedSet_iter(self) \o BaseOrderedSet_iter(other_))

\* Set.__and__: (value for value in other if value in self).
Set_and(self, other_) == Set_from_iterable(self, ValuesIn(other_, self))

\* Set.__sub__: (value for value in self if value not in other).
Set_sub(self, other_) == Set_from_iterable(self, ValuesNotIn(self, other_))

\* Set.__xor__: (self - other) | (other - self).
Set_xor(self, other_) == Set_or(Set_sub(self, other_), Set_sub(other_, self))

\* MutableSet.__iand__: for value in (self - it): self.discard(value).
MutableSet_iand(self, it) ==
    discard_each(self, BaseOrderedSet_iter(Set_sub(self, it)), 1)

\* MutableSet.__isub__ for an operand that is not self: every value of it
\* is discarded.
MutableSet_isub(self, it) == discard_each(self, BaseOrderedSet_iter(it), 1)

\* MutableSet.__ixor__ for an operand that is not self: a value of it that
\* is in self is discarded, any other is added; from the i-th value on.
RECURSIVE MutableSet_ixor(_, _, _)
MutableSet_ixor(self, it, i) ==
    IF i > Len(it) THEN self
    ELSE MutableSet_ixor(IF BaseOrderedSet_contains(self, it[i])
                         THEN BaseOrderedSet_discard(self, it[i])
                         ELSE BaseOrderedSet_add(self, it[i]),
                         it, i + 1)

SetOperators == {"|", "&", "-", "^"}

SetUpdates == {"update", "intersection_update", "difference_update",
               "symmetric_difference_update"}

UnchangedButSets ==
    UNCHANGED <<sl, hist, lastRemoved, oi, es, fields, inst, classes,
                other, layout, obj, oi2, eql>>

\* B.add(x) on the second set.
OSBAdd(x) ==
    /\ osB' = BaseOrderedSet_add(osB, x)
    /\ op' = [name |-> "B.add", err |-> "none"]
    /\ os' = os
    /\ UnchangedButSets

\* A o B for one of the operators: the operands stay, the result is
\* recorded as the list of its elements.
OSOperator(o) ==
    /\ LET r == CASE o = "|" -> Set_or(os, osB)
                  [] o = "&" -> Set_and(os, osB)
                  [] o = "-" -> Set_sub(os, osB)
                  [] o = "^" -> Set_xor(os, osB)
       IN  op' = [name |-> o, err |-> "none", a |-> BaseOrderedSet_iter(os),
                  b |-> BaseOrderedSet_iter(osB), result |-> BaseOrderedSet_iter(r)]
    /\ UNCHANGED <<os, osB>>
    /\ UnchangedButSets

\* A.update(B) and the other in-place forms: A is changed, and recorded as
\* the result.
OSUpdate(o) ==
    /\ LET r == CASE o = "update" ->
                        BaseOrderedSet_update(os, BaseOrderedSet_iter(osB), 1)
                  [] o = "intersection_update" -> MutableSet_iand(os, osB)
                  [] o = "difference_update" -> MutableSet_isub(os, osB)
                  [] o = "symmetric_difference_update" ->
                        MutableSet_ixor(os, BaseOrderedSet_iter(osB), 1)
       IN  /\ os' = r
           /\ op' = [name |-> o, err |-> "none", a |-> BaseOrderedSet_iter(os),
                     b |-> BaseOrderedSet_iter(osB), result |-> BaseOrderedSet_iter(r)]
    /\ osB' = osB
    /\ UnchangedButSets

NextSetOps ==
    \/ \E x \in Objects : OSAdd(x)
    \/ \E x \in Objects : OSBAdd(x)
    \/ \E o \in SetOperators : OSOperator(o)
    \/ \E o \in SetUpdates : OSUpdate(o)

(***************************************************************************)
(* OrderedIndex.__getitem__ and __delitem__ (all.py 359-371).  A key and   *)
(* an element are objects of the same kind, so the key function can be     *)
(* applied to a key as well.                                               *)
(***************************************************************************)
\* index[k]: self.map[k], and self.map[self.key(k)] when that raises
\* KeyError.
OrderedIndex_getitem(self, k) ==
    IF dict_has(self.map, k) THEN Result(dict_get(self.map, k), "none")
    ELSE IF dict_has(self.map, key(self, k))
    THEN Result(dict_get(self.map, key(self, k)), "none")
    ELSE Result(k, "KeyError")

\* del index[item]: del self.map[self.key(item)].
OrderedIndex_delitem(self, item) ==
    IF dict_has(self.map, key(self, item))
    THEN Ret([self EXCEPT !.map = dict_pop(self.map, key(self, item))], "none")
    ELSE Ret(self, "KeyError")

\* index[k] for an explicit key k
IXGetItem(k) ==
    /\ LET r == OrderedIndex_getitem(oi, k)
       IN  op' = [name |-> "index[k]", err |-> r.exc, k |-> k, result |-> r.val]
    /\ oi' = oi
    /\ UnchangedButOI

\* del index[k] for an explicit key k
IXDelItem(k) ==
    /\ LET r == OrderedIndex_delitem(oi, k)
       IN  /\ oi' = r.self
           /\ op' = [name |-> "del index[k]", err |-> r.exc, k |-> k]
    /\ UnchangedButOI

NextIndexKeys ==
    \/ \E x \in Objects : OIAdd(x)
    \/ \E x \in Objects : OIDiscard(x)
    \/ \E k \in IndexKeys : IXGetItem(k)
    \/ \E k \in IndexKeys : IXDelItem(k)

(***************************************************************************)
(* The EdgeQL documentation domain (edb/tools/docs/eql.py): the objects    *)
(* registry filled by the directives and read by resolve_xref              *)
(***************************************************************************)
\* Names written in directives and roles: two spellings of one operator ID
\* and a two-word keyword in two spellings.
OperatorIds == {"PLUS", "plus"}

KeywordNames == {"NOT IN", "not in"}

Names == OperatorIds \cup KeywordNames

Docnames == {"ops", "kws"}

\* name.replace(' ', '-')
str_replace_space(name) ==
    CASE name = "NOT IN" -> "NOT-IN"
      [] name = "not in" -> "not-in"
      [] OTHER -> name

\* f'{prefix}::{name}'
FullName(prefix, name) == <<prefix, name>>

\* initial_data = {'objects': {}}; a document starts with no ids.
EdgeQLDomain_initial_data ==
    [objects |-> << >>, ids |-> [d \in Docnames |-> {}]]

\* object_types and _role_to_object_type
role_to_object_type(type) ==
    CASE type = "kw" -> "keyword"
      [] type = "op" -> "operator"

\* BaseEQLDirective.add_target_and_index(name, sig, signode) run while
\* reading document docname by a directive of type objtype.
add_target_and_index(self, docname, objtype, name) ==
    LET target == <<name[1], str_replace_space(name[2])>>
    IN  IF target \in self.ids[docname]
        THEN Ret(self, "DirectiveParseError")
        ELSE LET noted == [self EXCEPT !.ids[docname] = @ \cup {target}]
             IN  IF target \in DOMAIN self.objects
                 THEN Ret(noted, "DirectiveParseError")
                 ELSE Ret([noted EXCEPT !.objects =
                              [t \in DOMAIN self.objects \cup {target} |->
                                  IF t = target THEN <<docname, objtype>>
                                  ELSE self.objects[t]]],
                          "none")

\* EQLOperatorDirective: handle_signature returns the stripped name before
\* the colon, add_target_and_index prefixes it with operator::
EQLOperatorDirective_add_target_and_index(self, docname, name) ==
    add_target_and_index(self, docname, "operator", FullName("operator", name))

\* EQLKeywordDirective: handle_signature returns the signature itself
EQLKeywordDirective_add_target_and_index(self, docname, name) ==
    add_target_and_index(self, docname, "keyword", FullName("keyword", name))

\* EdgeQLDomain.resolve_xref for the roles kw and op: the reference node made,
\* None for an unresolved automatic link, or DomainError.
NoRef == [docname |-> "", target |-> << >>, eqltype |-> ""]

resolve_xref(self, type, target, auto_link) ==
    LET expected_type == role_to_object_type(type)
        t == FullName(expected_type, str_replace_space(target))
    IN  IF t \notin DOMAIN self.objects
        THEN IF ~auto_link THEN Result(NoRef, "DomainError")
             ELSE Result(NoRef, "none")
        ELSE IF self.objects[t][2] # expected_type
        THEN Result(NoRef, "DomainError")
        ELSE Result([docname |-> self.objects[t][1], target |-> t,
                     eqltype |-> self.objects[t][2]], "none")

\* EdgeQLDomain.clear_doc(docname), and the fresh document read afterwards
clear_doc(self, docname) ==
    LET keep == { t \in DOMAIN self.objects : self.objects[t][1] # docname }
    IN  [objects |-> [t \in keep |-> self.objects[t]],
         ids |-> [self.ids EXCEPT ![docname] = {}]]

UnchangedButEql ==
    UNCHANGED <<sl, os, hist, lastRemoved, oi, es, fields, inst, classes,
                osB, other, layout, obj, oi2>>

\* .. eql:operator:: NAME: SIGNATURE   in document docname
DeclareOperator(docname, name) ==
    /\ LET r == EQLOperatorDirective_add_target_and_index(eql, docname, name)
       IN  /\ eql' = r.self
           /\ op' = [name |-> "eql:operator", err |-> r.exc, docname |-> docname,
                     id |-> name]
    /\ UnchangedButEql

\* .. eql:keyword:: NAME   in document docname
DeclareKeyword(docname, name) ==
    /\ LET r == EQLKeywordDirective_add_target_and_index(eql, docname, name)
       IN  /\ eql' = r.self
           /\ op' = [name |-> "eql:keyword", err |-> r.exc, docname |-> docname,
                     id |-> name]
    /\ UnchangedButEql

\* :eql:op:`target` or :eql:kw:`target`, written by hand or made by a field
ResolveXRef(type, target, auto_link) ==
    /\ LET r == resolve_xref(eql, type, target, auto_link)
       IN  op' = [name |-> "resolve_xref", err |-> r.exc, type |-> type,
                  target |-> target, auto_link |-> auto_link, result |-> r.val]
    /\ eql' = eql
    /\ UnchangedButEql

\* a changed document is cleared and read again
ClearDoc(docname) ==
    /\ eql' = clear_doc(eql, docname)
    /\ op' = [name |-> "clear_doc", err |-> "none", docname |-> docname]
    /\ UnchangedButEql

NextEql ==
    \/ \E d \in Docnames, n \in OperatorIds : DeclareOperator(d, n)
    \/ \E d \in Docnames, n \in KeywordNames : DeclareKeyword(d, n)
    \/ \E ty \in {"op", "kw"}, n \in Names, a \in BOOLEAN : ResolveXRef(ty, n, a)
    \/ \E d \in Docnames : ClearDoc(d)

(***************************************************************************)
(* SortedList: calls with elements that cannot be compared, and extend     *)
(* with the list itself as its argument                                    *)
(***************************************************************************)
Elements == Values \cup {Incomparable}

\* The number of elements the list can hold before growing it fails with
\* MemoryError.
Capacity == MaxLen + 1

\* for x in L: bisect.insort_right(self, x)  with L the list itself: the
\* list iterator reads self[i] for i = 0, 1, ... until i reaches the
\* length the list has at that moment.
RECURSIVE insort_live(_, _)
insort_live(self, i) ==
    IF i >= Len(self.items) THEN Ret(self, "none")
    ELSE IF Len(self.items) >= Capacity THEN Ret(self, "MemoryError")
    ELSE LET r == insort_right(self, self.items[i + 1])
         IN  IF r.exc # "none" THEN r ELSE insort_live(r.self, i + 1)

\* self.extend(self); list.extend(self) appends the elements present at
\* the call.
SortedList_extend_self(self) ==
    IF ~self.extending
    THEN LET r == insort_live([self EXCEPT !.extending = TRUE], 0)
         IN  IF r.exc # "none" THEN r
             ELSE Ret([r.self EXCEPT !.extending = FALSE], "none")
    ELSE Ret([self EXCEPT !.items = list_extend(self.items, self.items)], "none")

DoExtendSelf ==
    /\ 2 * Len(sl.items) <= MaxLen
    /\ LET r == SortedList_extend_self(sl)
       IN  /\ sl' = r.self
           /\ op' = [name |-> "extend(self)", err |-> r.exc, L |-> sl.items]
    /\ UnchangedButSL

\* The three sorted entry points called from outside with any elements.
NextSortedCalls ==
    \/ \E x \in Elements : DoAppend(x)
    \/ \E i \in Indices, x \in Elements : DoInsert(i, x)
    \/ \E L \in Iterables(Elements) : DoExtend(L)
    \/ DoExtendSelf

(***************************************************************************)
(* StrictOrderedIndex: the inherited ways of inserting (all.py 212-215,    *)
(* 235, 346-348)                                                           *)
(***************************************************************************)
\* index.update(iterable): MutableSet.__ior__, which adds each value.
OIUpdateFrom(L) ==
    /\ Len(oi.map) + Len(L) <= MaxLen
    /\ oi' = BaseOrderedSet_update(oi, L, 1)
    /\ op' = [name |-> "update", err |-> "none", args |-> L]
    /\ UnchangedButOI

\* index = StrictOrderedIndex(iterable, key=f): __init__ stores the key
\* function and passes the iterable to update.
OIConstruct(L) ==
    /\ oi' = BaseOrderedSet_update(OrderedIndex_init(oi.key), L, 1)
    /\ op' = [name |-> "StrictOrderedIndex(iterable)", err |-> "none", args |-> L]
    /\ UnchangedButOI

NextStrictInsert ==
    \/ \E x \in Objects : OIAdd(x)
    \/ \E x \in Objects : OIDiscard(x)
    \/ \E k \in IndexKeys, v \in Objects : OISubscriptAssign(k, v)
    \/ \E x \in Objects : OISetItemCall(x)
    \/ \E L \in Iterables(Objects) : OIUpdateFrom(L)
    \/ \E L \in Iterables(Objects) : OIConstruct(L)

(***************************************************************************)
(* BaseOrderedSet.__eq__ (all.py 258-264).  The right operand is another   *)
(* set of the same class, None, or a plain list.                           *)
(***************************************************************************)
\* list.__eq__: same length and equal elements at each position.
list_eq(a, b) ==
    Len(a) = Len(b) /\ \A i \in 1 .. Len(a) : PyEq(a[i], b[i])

\* Set.isdisjoint(other): no value of other is in self.
Set_isdisjoint(self, values) ==
    \A i \in 1 .. Len(values) : ~BaseOrderedSet_contains(self, values[i])

\* __eq__ that compares element by element whatever the operand is.
BaseOrderedSet_eq_elementwise(self, kind, values) ==
    kind # "NoneType" /\ list_eq(BaseOrderedSet_iter(self), values)

\* self == other, the operand given by its kind and the values it yields.
BaseOrderedSet_eq(self, kind, values) ==
    IF kind = "same class"
    THEN BaseOrderedSet_len(self) = Len(values)
            /\ list_eq(BaseOrderedSet_iter(self), values)
    ELSE IF kind = "NoneType" THEN FALSE
    ELSE ~Set_isdisjoint(self, values)

OperandKinds == {"same class", "list", "NoneType"}

\* A == B, A == list(B) and A == None
OSEq(kind) ==
    /\ LET values == IF kind = "NoneType" THEN <<>> ELSE BaseOrderedSet_iter(osB)
       IN  op' = [name |-> "==", err |-> "none", kind |-> kind,
                  a |-> BaseOrderedSet_iter(os), b |-> values,
                  result |-> BaseOrderedSet_eq(os, kind, values)]
    /\ UNCHANGED <<os, osB>>
    /\ UnchangedButSets

\* The largest operand of a comparison.
MaxSetLen == 2

NextSetEq ==
    \/ \E x \in Objects : Len(os.map) < MaxSetLen /\ OSAdd(x)
    \/ \E x \in Objects : Len(osB.map) < MaxSetLen /\ OSBAdd(x)
    \/ \E kind \in OperandKinds : OSEq(kind)

(***************************************************************************)
(* Copies of an OrderedIndex (all.py 266-267, 346-348): copy() and the     *)
(* set operators build the result by calling the class with an iterable    *)
(* and nothing else.                                                       *)
(***************************************************************************)
\* OrderedIndex(iterable): key is None, so self.key = hash, then update.
OrderedIndex_from(it) ==
    BaseOrderedSet_update(OrderedIndex_init("hash"), it, 1)

\* copy(): self.__class__(self)
BaseOrderedSet_copy(self) == OrderedIndex_from(BaseOrderedSet_iter(self))

\* Set.__or__ on an index: cls._from_iterable(chain(self, other)), and
\* _from_iterable is cls(it).
OrderedIndex_or(self, L) == OrderedIndex_from(BaseOrderedSet_iter(self) \o L)

Returned(index) == [exists |-> TRUE, map |-> index.map, key |-> index.key]

UnchangedButOI2 ==
    UNCHANGED <<sl, os, hist, lastRemoved, oi, es, fields, inst, classes,
                osB, other, layout, obj, eql>>

\* index2 = index.copy()
OICopy ==
    /\ oi2' = Returned(BaseOrderedSet_copy(oi))
    /\ op' = [name |-> "copy", err |-> "none", args |-> <<>>]
    /\ UnchangedButOI2

\* index2 = index | L
OIOr(L) ==
    /\ oi2' = Returned(OrderedIndex_or(oi, L))
    /\ op' = [name |-> "|", err |-> "none", args |-> L]
    /\ UnchangedButOI2

NextIndexCopy ==
    \/ \E x \in Objects : OIAdd(x)
    \/ \E x \in Objects : OIDiscard(x)
    \/ OICopy
    \/ \E L \in Iterables(Objects) : OIOr(L)

(***************************************************************************)
(* C1, C2: the sorted invariant of SortedList                              *)
(***************************************************************************)
Sorted(a) == \A i, j \in 1 .. Len(a) : i < j => a[i] <= a[j]

\* A SortedList that starts empty and is changed only through its own
\* overrides, with elements of a totally ordered set.
NextSorted ==
    \/ \E x \in Values : DoAppend(x)
    \/ \E i \in Indices, x \in Values : DoInsert(i, x)
    \/ \E L \in Iterables(Values) : DoExtend(L)

\* The same list with the mutators it inherits from list as well.
NextList ==
    \/ \E x \in Values : DoAppend(x)
    \/ \E i \in Indices, x \in Values : DoInsert(i, x)
    \/ \E L \in Iterables(Values) : DoExtend(L)
    \/ \E i \in Indices, x \in Values : DoSetItem(i, x)
    \/ \E L \in Iterables(Values) : DoIAdd(L)
    \/ DoReverse

\* The record types an instance is built from: one declaration per name.
RecordTypes == [FieldNames -> FieldDecls]

\* The state after construction: an empty SortedList, two empty
\* OrderedSets, an index OI and a set ES built with their key function, the
\* record type F and no instance of it yet, and Struct as the only record
\* type.
InitWith(OI, ES, F) ==
    /\ sl = SortedList_init
    /\ os = BaseOrderedSet_init("item")
    /\ hist = <<>>
    /\ lastRemoved = NoRemoval
    /\ oi \in OI
    /\ es \in ES
    /\ fields \in F
    /\ inst = NoInstance
    /\ classes = <<StructClass>>
    /\ osB = BaseOrderedSet_init("item")
    /\ other = NoInstance
    /\ layout = <<StructLayout>>
    /\ obj = NoObject
    /\ oi2 = NoIndex
    /\ eql = EdgeQLDomain_initial_data
    /\ op = NoOp

DefaultType == [f \in FieldNames |-> Field(<<"int">>, Void, FALSE)]

Init == InitWith({OrderedIndex_init("user")}, {ExtendedSet_init("user")}, {DefaultType})

InitStrictIndex ==
    InitWith({ OrderedIndex_init(kk) : kk \in {"hash", "user"} },
             {ExtendedSet_init("user")}, {DefaultType})

InitExtendedSet ==
    InitWith({OrderedIndex_init("user")},
             { ExtendedSet_init(kk) : kk \in {"hash", "user"} }, {DefaultType})

InitStruct ==
    InitWith({OrderedIndex_init("user")}, {ExtendedSet_init("user")}, RecordTypes)

SpecSorted == Init /\ [][NextSorted]_vars

SpecList == Init /\ [][NextList]_vars

SpecOrderedSetAdd == Init /\ [][NextOrderedSetAdd]_vars

SpecOrderedSet == Init /\ [][NextOrderedSet]_vars

SpecStrictIndex == InitStrictIndex /\ [][NextStrictIndex]_vars

SpecExtendedSet == InitExtendedSet /\ [][NextExtendedSet]_vars

SpecStruct == InitStruct /\ [][NextStruct]_vars

SpecMeta == Init /\ [][NextMeta]_vars

\* The record types of the two-instance specification.
PairDecls ==
    { Field(<<"int">>, Void, FALSE),
      Field(<<"int">>, Literal(IntVal(1)), FALSE),
      Field(<<"str">>, NoDefault, TRUE) }

InitStructPair ==
    InitWith({OrderedIndex_init("user")}, {ExtendedSet_init("user")},
             [FieldNames -> PairDecls])

SpecStructOps == InitStruct /\ [][NextStructOps]_vars

SpecStructPair == InitStructPair /\ [][NextStructPair]_vars

SpecSlots == Init /\ [][NextSlots]_vars

SpecIndex == InitStrictIndex /\ [][NextIndex]_vars

SpecSetOps == Init /\ [][NextSetOps]_vars

SpecIndexCopy == InitStrictIndex /\ [][NextIndexCopy]_vars

SpecSetEq == Init /\ [][NextSetEq]_vars

\* Record types whose fields have a callable default that is not one of the
\* field's types (a function returning 1, a function returning the text
\* "0"), a literal default or a type as default.
FactoryDecls ==
    { Field(<<"int">>, Lambda(IntVal(1)), FALSE),
      Field(<<"str">>, Lambda(StrVal(0)), TRUE),
      Field(<<"int">>, Literal(IntVal(1)), FALSE),
      Field(<<"int">>, TypeDefault("int"), FALSE) }

InitStructFactory ==
    InitWith({OrderedIndex_init("user")}, {ExtendedSet_init("user")},
             [FieldNames -> FactoryDecls])

SpecStructFactory == InitStructFactory /\ [][NextStructOps]_vars

SpecStrictInsert == InitStrictIndex /\ [][NextStrictInsert]_vars

SpecSortedCalls == Init /\ [][NextSortedCalls]_vars

SpecEql == Init /\ [][NextEql]_vars

SpecIndexKeys == InitStrictIndex /\ [][NextIndexKeys]_vars

\* C1: starting from the empty SortedList, after every completed append,
\* insert or extend (any index, elements of a totally ordered set) the list
\* is in non-decreasing order.
C1_SortedAfterOverrides == Sorted(sl.items)

\* C1 witness: an insert that asked for index 0 with an element larger
\* than the first has completed on a list of at least three elements.
C1_Witness ==
    /\ op.name = "insert" /\ op.err = "none" /\ op.i = 0
    /\ Len(sl.items) >= 3
    /\ sl.items[1] < op.x

\* C2: after any successful mutation through any mutating operation the
\* list exposes (the overrides and the ones inherited from list), for all
\* i < j, list[i] <= list[j].
C2_SortedAfterAnyMutation ==
    (op.name \in {"append", "insert", "extend", "__setitem__", "__iadd__", "reverse"}
        /\ op.err = "none")
    => \A i, j \in 1 .. Len(sl.items) : i < j => sl.items[i] <= sl.items[j]

(***************************************************************************)
(* C3, C4, C5: OrderedSet                                                  *)
(***************************************************************************)
\* The first element of each equality class of h, in the order of first
\* appearance.
RECURSIVE FirstPerKey(_)
FirstPerKey(h) ==
    IF h = <<>> THEN <<>>
    ELSE LET n == Len(h)
             d == FirstPerKey(SubSeq(h, 1, n - 1))
         IN  IF \E j \in 1 .. n - 1 : PyEq(h[j], h[n]) THEN d ELSE Append(d, h[n])

\* C3: after any sequence of add calls, iteration yields exactly one stored
\* value per distinct key, in the order each key was first added, and the
\* value is the first one added under that key (a later add of a present
\* key changes neither order, value nor length).
C3_FirstWriteWins ==
    /\ BaseOrderedSet_iter(os) = FirstPerKey(hist)
    /\ BaseOrderedSet_len(os) = Len(FirstPerKey(hist))

\* C3 witness: a key was added twice with different objects, another key
\* was added in between, and the first object is the one stored.
C3_Witness ==
    /\ Len(hist) >= 3
    /\ PyEq(hist[1], hist[3]) /\ hist[1] # hist[3]
    /\ ~PyEq(hist[1], hist[2])
    /\ BaseOrderedSet_iter(os)[1] = hist[1]

Without(seq, x) == SelectSeq(seq, LAMBDA e : ~PyEq(e, x))

\* C4: removing a present element (discard or remove) leaves the remaining
\* elements in their previous relative order, and adding the removed key
\* again places it at the end of the iteration order.
C4_RemovalKeepsOrder ==
    [][ /\ (op'.name \in {"discard", "remove"} /\ BaseOrderedSet_contains(os, op'.arg))
            => BaseOrderedSet_iter(os') = Without(BaseOrderedSet_iter(os), op'.arg)
        /\ (op'.name = "add" /\ lastRemoved.k = op'.arg.k
                /\ ~BaseOrderedSet_contains(os, op'.arg))
            => BaseOrderedSet_iter(os') = Append(BaseOrderedSet_iter(os), op'.arg)
      ]_vars

\* C4 witness: a key that was removed from before another element has been
\* added again and is now the last of at least two elements.
C4_Witness ==
    /\ op.name = "add"
    /\ lastRemoved.k = op.arg.k /\ lastRemoved.mid
    /\ BaseOrderedSet_len(os) >= 2
    /\ BaseOrderedSet_iter(os)[BaseOrderedSet_len(os)] = op.arg

\* C5: discard of an absent element returns without error and changes
\* nothing; remove of an absent element fails with KeyError and changes
\* nothing.
C5_DiscardVsRemoveAbsent ==
    [][ /\ (op'.name = "discard" /\ ~BaseOrderedSet_contains(os, op'.arg))
            => (op'.err = "none" /\ os' = os)
        /\ (op'.name = "remove" /\ ~BaseOrderedSet_contains(os, op'.arg))
            => (op'.err = "KeyError" /\ os' = os)
      ]_vars

\* C5 witness: a remove has failed with KeyError on a set that holds other
\* elements.
C5_Witness ==
    /\ op.name = "remove" /\ op.err = "KeyError"
    /\ BaseOrderedSet_len(os) >= 2
    /\ ~BaseOrderedSet_contains(os, op.arg)

(***************************************************************************)
(* C6: StrictOrderedIndex, C7: ExtendedSet                                 *)
(***************************************************************************)
\* C6: the write index[k] = v2 issued when key k is present with value v1
\* fails with the duplicate-key error (ValueError), and afterwards v1 is
\* still the value retrieved for k and length and order are unchanged.
C6_DuplicateKeyWriteRejected ==
    [][ (op'.name = "index[k]=v" /\ dict_has(oi.map, op'.args[1]))
            => /\ op'.err = "ValueError"
               /\ dict_has(oi'.map, op'.args[1])
               /\ dict_get(oi'.map, op'.args[1]) = dict_get(oi.map, op'.args[1])
               /\ BaseOrderedSet_iter(oi') = BaseOrderedSet_iter(oi)
      ]_vars

\* C7: ExtendedSet.add(x) when key(x) is already present because of an
\* earlier element y (y may differ from x) is a no-op: the stored elements
\* and the length are unchanged.
C7_AddPresentKeyIsNoOp ==
    [][ (op'.name = "add" /\ ExtendedSet_contains(es, op'.arg))
            => (es'.set = es.set /\ ExtendedSet_len(es') = ExtendedSet_len(es))
      ]_vars

(***************************************************************************)
(* C8, C9: Struct construction and coercion                                *)
(***************************************************************************)
Required == { f \in FieldNames : fields[f].default.kind = "Void" }

\* The default of field f can be written to it: there is none, or it is a
\* value of an accepted type, or one of the accepted types (called).
UsableDefault(f) ==
    \/ fields[f].default.kind \in {"Void", "None"}
    \/ fields[f].default.kind = "value"
           /\ isinstance(fields[f].default.val, fields[f].type)
    \/ fields[f].default.kind = "type"
           /\ fields[f].default.ty \in SeqToSet(fields[f].type)

\* The fields other than those of S raise nothing of their own: what kw
\* gives them is None or of an accepted type, and a default they fall back
\* on is usable.
OthersFine(kw, S) ==
    \A f \in FieldNames \ S :
        /\ f \in DOMAIN kw => (kw[f] = None \/ isinstance(kw[f], fields[f].type))
        /\ kwargs_get(kw, f) = None => UsableDefault(f)

\* The required fields a construction with keywords kw does not supply.  As
\* _init_fields reads them (values.get(name) is None), a keyword given as
\* None is a field not supplied.
NotSupplied(kw) == { f \in Required : kwargs_get(kw, f) = None }

C8_WitnessSupplied ==
    /\ op.name = "__init__" /\ op.setdefaults /\ ~op.relaxrequired
    /\ Required = FieldNames /\ DOMAIN op.kw = FieldNames
    /\ op.err = "none" /\ inst.exists
    /\ \A f \in FieldNames : inst.attrs[f] = op.kw[f] /\ op.kw[f] # None

\* The statement of C9 for a reading Converted of "a value the write has to
\* convert": T(value) is stored when the conversion succeeds, and the write
\* fails with the type mismatch error, the previous value staying in
\* place, when the conversion raises any error.
CoercionStatement(Converted(_, _)) ==
    (op'.name = "__setattr__"
            /\ fields[op'.field].coerce /\ Len(fields[op'.field].type) = 1)
        => IF Converted(op'.value, fields[op'.field].type[1])
           THEN LET c == Call(fields[op'.field].type[1], op'.value)
                IN  IF c.exc = "none"
                    THEN op'.err = "none"
                         /\ inst'.attrs = [inst.attrs EXCEPT ![op'.field] = c.val]
                    ELSE op'.err = "TypeError(coercion)" /\ inst' = inst
           ELSE op'.err = "none"
                /\ inst'.attrs = [inst.attrs EXCEPT ![op'.field] = op'.value]

TypeIsNot(v, T) == v.t # T

NotNoneNotInstance(v, T) == v # None /\ ~isinstance(v, <<T>>)

\* C9 as stated: for a field with a single accepted type T and coerce set,
\* writing a value whose type is not T stores T(value) when the conversion
\* succeeds and fails with the type mismatch error, the previous value
\* staying in place, when the conversion raises any error.
C9_CoercionOnWrite_AsStated == [][CoercionStatement(TypeIsNot)]_vars

\* C9 amended: the same for a value other than None that is not an instance
\* of T (of T or of a subclass of T); None and instances of T are stored as
\* they are, without conversion.
C9_CoercionOnWrite == [][CoercionStatement(NotNoneNotInstance)]_vars

\* C9 witness: the numeral '1' written to a coercing int field is stored as
\* the int 1.
C9_Witness ==
    /\ op.name = "__setattr__" /\ op.err = "none"
    /\ fields[op.field].coerce /\ fields[op.field].type = <<"int">>
    /\ op.value = StrVal(1)
    /\ inst.attrs[op.field] = IntVal(1)

\* C9, the rejecting half: a text that is no numeral written to a coercing
\* int field over a stored value has failed and the stored value is there.
C9_WitnessRejected ==
    /\ op.name = "__setattr__" /\ op.err = "TypeError(coercion)"
    /\ op.value = StrVal(-1)
    /\ inst.attrs[op.field] = IntVal(0)

(***************************************************************************)
(* C10: the merged field table of an inheritance chain                     *)
(***************************************************************************)
\* The type c and its ancestors when each has at most one base, the most
\* derived first.
RECURSIVE ChainOf(_)
ChainOf(c) ==
    IF classes[c].bases = <<>> THEN <<c>>
    ELSE <<c>> \o ChainOf(classes[c].bases[1])

RECURSIVE IsChain(_)
IsChain(c) ==
    \/ classes[c].bases = <<>>
    \/ Len(classes[c].bases) = 1 /\ IsChain(classes[c].bases[1])

\* The types of chain that declare n, as positions in chain.
Declaring(chain, n) == { i \in 1 .. Len(chain) : n \in DOMAIN classes[chain[i]].own }

\* C10: in a chain of record types (A <- B <- C), for every field name the
\* merged table of each type holds the declaration of the most-derived
\* type of its chain that declares the name: C's table holds C's
\* declaration and B's table holds B's when every level redeclares it.
C10_MostDerivedWins ==
    \A c \in 1 .. Len(classes) :
        IsChain(c) =>
            LET chain == ChainOf(c)
            IN  \A n \in MetaNames :
                    IF Declaring(chain, n) = {}
                    THEN n \notin DOMAIN classes[c].fields
                    ELSE LET i == CHOOSE i \in Declaring(chain, n) :
                                      \A j \in Declaring(chain, n) : i <= j
                         IN  /\ n \in DOMAIN classes[c].fields
                             /\ classes[c].fields[n] = classes[chain[i]].own[n]

\* C10 witness: three levels under Struct each declare f, the table of the
\* last holds its own declaration and the table of the middle one its own.
C10_Witness ==
    /\ Len(classes) >= 4
    /\ classes[2].bases = <<1>> /\ classes[3].bases = <<2>> /\ classes[4].bases = <<3>>
    /\ \A c \in 2 .. 4 : "f" \in DOMAIN classes[c].own
    /\ classes[4].fields["f"] = FieldObject(4, "f")
    /\ classes[3].fields["f"] = FieldObject(3, "f")

(***************************************************************************)
(* C11: sibling ancestors declaring the same field                         *)
(***************************************************************************)
\* The types listing several bases, each of which declares n in its own
\* body, without redeclaring n themselves.
SiblingsDeclare(c, n) ==
    /\ Len(classes[c].bases) >= 2
    /\ \A i \in 1 .. Len(classes[c].bases) : n \in DOMAIN classes[classes[c].bases[i]].own
    /\ n \notin DOMAIN classes[c].own

\* C11 as stated: when several listed ancestors each declare a field name
\* and the type does not redeclare it, the merged table of the type holds
\* the declaration of the last-listed ancestor.
C11_LastListedWins ==
    \A c \in 1 .. Len(classes) : \A n \in MetaNames :
        SiblingsDeclare(c, n) =>
            LET b == classes[c].bases
            IN  n \in DOMAIN classes[c].fields
                /\ classes[c].fields[n] = classes[b[Len(b)]].own[n]

\* C11 amended: in that case the merged table holds the declaration of the
\* first-listed ancestor, the one earliest in the method resolution order.
C11_FirstListedWins ==
    \A c \in 1 .. Len(classes) : \A n \in MetaNames :
        SiblingsDeclare(c, n) =>
            /\ n \in DOMAIN classes[c].fields
            /\ classes[c].fields[n] = classes[classes[c].bases[1]].own[n]

\* C11 witness: class D(X, Y) with X and Y both declaring f and D not; the
\* table of D holds X's declaration.
C11_Witness ==
    /\ Len(classes) >= 4
    /\ classes[4].bases = <<2, 3>>
    /\ SiblingsDeclare(4, "f")
    /\ classes[4].fields["f"] = FieldObject(2, "f")

(***************************************************************************)
(* C17: a failed ExtendedSet.remove                                        *)
(***************************************************************************)
\* C17: a remove(x) that raises KeyError leaves the set as it was: the
\* same stored elements, the same length and the same membership answer
\* for every value.
C17_FailedRemoveChangesNothing ==
    [][ (op'.name = "remove" /\ op'.err = "KeyError") =>
            /\ es'.set = es.set
            /\ ExtendedSet_len(es') = ExtendedSet_len(es)
            /\ \A x \in Objects :
                   ExtendedSet_contains(es', x) = ExtendedSet_contains(es, x)
      ]_vars

(***************************************************************************)
(* C12, C13: comparison and copy of Struct instances                       *)
(***************************************************************************)
\* Python's == on the values of the model: numbers compare by value, so
\* True equals 1.
ValEq(v, w) ==
    \/ v = w
    \/ v.t \in {"int", "bool"} /\ w.t \in {"int", "bool"} /\ v.x = w.x

AttrsEq(a, b) == \A f \in FieldNames : ValEq(a[f], b[f])

\* C12: two distinct instances of the same record type compare equal if
\* and only if every field holds equal values.
C12_StructuralEquality ==
    (op.name = "__eq__" /\ op.a # op.b) =>
        (op.result <=> AttrsEq(inst.attrs, other.attrs))

\* C13: for every instance reachable by construction and attribute writes,
\* copy() succeeds and returns an instance in which every field holds the
\* value it holds in the source, the source staying as it is; and a later
\* write to a field of the copy leaves the original unchanged.
C13_CopyIsFaithfulAndIndependent ==
    [][ /\ op'.name = "copy" =>
              /\ op'.err = "none" /\ other'.exists
              /\ other'.attrs = inst.attrs
              /\ inst' = inst
        /\ op'.name = "other.__setattr__" => inst' = inst
      ]_vars

(***************************************************************************)
(* C14, C15, C18: setdefaults and the type of stored values                *)
(***************************************************************************)
\* C14: setdefaults() is idempotent: a second call made right after a
\* successful first call returns and changes no field of the instance,
\* whatever the state of the instance and whatever the defaults.
C14_SetDefaultsIdempotent ==
    [][ (op'.name = "setdefaults"
            /\ op'.prev.name = "setdefaults" /\ op'.prev.err = "none")
        => (op'.err = "none" /\ inst' = inst) ]_vars

\* C14 witness: a second setdefaults has returned right after a first one
\* on an instance built without defaults, one of whose fields now holds
\* its literal default and the other the result of calling its type.
C14_Witness ==
    /\ op.name = "setdefaults" /\ op.err = "none"
    /\ op.prev = [name |-> "setdefaults", err |-> "none"]
    /\ fields["a"].default = Literal(IntVal(1)) /\ inst.attrs["a"] = IntVal(1)
    /\ fields["b"].default = TypeDefault("int") /\ inst.attrs["b"] = IntVal(0)

\* C15 as stated: after any sequence of constructor, attribute, update
\* and setdefaults calls, every declared field holds a value whose type
\* is among the accepted types of the field.
C15_StoredTypeAccepted_AsStated ==
    inst.exists =>
        \A f \in FieldNames : inst.attrs[f].t \in SeqToSet(fields[f].type)

\* C15 amended: every declared field holds None, which is stored
\* unchecked, or an instance of one of the accepted types of the field (of
\* the type or of a subclass).
C15_StoredTypeAccepted ==
    inst.exists =>
        \A f \in FieldNames :
            inst.attrs[f] = None \/ isinstance(inst.attrs[f], fields[f].type)

\* C15 witness: the int 1 written to a coercing str field is held as the
\* text '1', and an update with a list for an int field has been rejected.
C15_Witness ==
    /\ inst.exists
    /\ op.name = "__setattr__" /\ op.err = "none" /\ op.value = IntVal(1)
    /\ fields[op.field] = Field(<<"str">>, NoDefault, TRUE)
    /\ inst.attrs[op.field] = StrVal(1)

\* C15, the rejecting half: an update has raised the type error and the
\* instance holds values of accepted types.
C15_WitnessRejected ==
    /\ inst.exists
    /\ op.name = "update" /\ op.nargs = 0 /\ op.err = "TypeError(expected)"
    /\ \A f \in FieldNames : inst.attrs[f] # None

\* C18: a setdefaults() that fails with the required-field error leaves
\* every field of the instance as it was before the call.
C18_FailedSetDefaultsChangesNothing ==
    [][ (op'.name = "setdefaults" /\ op'.err = "TypeError(required)")
        => inst' = inst ]_vars

(***************************************************************************)
(* C16: writes of undeclared attributes                                    *)
(***************************************************************************)
\* C16: on a record type with compact storage (use_slots requested by the
\* type or taken over from a base that has it), writing an attribute that
\* is not in the merged field table fails with AttributeError and leaves
\* the instance unchanged; on a record type without it the write succeeds
\* and stores the value, whatever its type.
C16_UndeclaredWriteFollowsSlots ==
    [][ op'.name = "obj.__setattr__" =>
            IF layout[obj.cls].slots
            THEN op'.err = "AttributeError" /\ obj' = obj
            ELSE /\ op'.err = "none"
                 /\ op'.attr \in DOMAIN obj'.dict
                 /\ obj'.dict[op'.attr] = op'.value
      ]_vars

(***************************************************************************)
(* C19: overwriting a key of an OrderedIndex                               *)
(***************************************************************************)
\* C19: on an OrderedIndex, index[key] = value for a key that is present
\* succeeds, replaces the stored value by the new one and keeps the entry
\* at its position, the length staying the same.
C19_SubscriptOverwrite ==
    [][ (op'.name = "index[k]=v" /\ dict_has(oi.map, op'.args[1])) =>
            /\ op'.err = "none"
            /\ Len(oi'.map) = Len(oi.map)
            /\ oi'.map = [oi.map EXCEPT ![dict_pos(oi.map, op'.args[1])].val
                                            = op'.args[2]]
      ]_vars

(***************************************************************************)
(* C20: the order of the results of set operations                         *)
(***************************************************************************)
\* The elements of a whose key is, or is not, the key of an element of b.
Kept(a, b) == SelectSeq(a, LAMBDA v : \E i \in 1 .. Len(b) : PyEq(v, b[i]))

Dropped(a, b) == SelectSeq(a, LAMBDA v : \A i \in 1 .. Len(b) : ~PyEq(v, b[i]))

\* The result the claim gives for an operation on a and b: the surviving
\* elements of a in a's order, then the elements new from b in b's order.
LeftThenNew(o, a, b) ==
    CASE o \in {"|", "update"} -> a \o Dropped(b, a)
      [] o \in {"&", "intersection_update"} -> Kept(a, b)
      [] o \in {"-", "difference_update"} -> Dropped(a, b)
      [] o \in {"^", "symmetric_difference_update"} -> Dropped(a, b) \o Dropped(b, a)

KeysOf(q) == [i \in 1 .. Len(q) |-> q[i].k]

\* C20: for OrderedSets A and B, each of union, intersection, difference
\* and symmetric difference, as an operator and as an in-place update,
\* yields the keys of the corresponding set operation, iterated as the
\* surviving elements of A in A's order followed by the elements newly
\* introduced from B in B's order.
C20_LeftOrderThenNew ==
    op.name \in SetOperators \cup SetUpdates =>
        KeysOf(op.result) = KeysOf(LeftThenNew(op.name, op.a, op.b))

(***************************************************************************)
(* C21: lookup and delete by explicit key                                  *)
(***************************************************************************)
\* C21: on an OrderedIndex built with a key function, index[k] returns the
\* entry stored under k and del index[k] removes it, the other entries
\* keeping their order; for an absent k both raise KeyError and leave the
\* index unchanged.
C21_LookupAndDeleteByKey ==
    [][ /\ op'.name = "index[k]" =>
              /\ oi' = oi
              /\ IF dict_has(oi.map, op'.k)
                 THEN op'.err = "none" /\ op'.result = dict_get(oi.map, op'.k)
                 ELSE op'.err = "KeyError"
        /\ op'.name = "del index[k]" =>
              IF dict_has(oi.map, op'.k)
              THEN op'.err = "none" /\ oi'.map = dict_pop(oi.map, op'.k)
              ELSE op'.err = "KeyError" /\ oi' = oi
      ]_vars

(***************************************************************************)
(* C22: an operator declared under an OPERATOR_ID is resolved by an        *)
(* :eql:op: reference whose target is that ID in any letter case: when the *)
(* registry holds an operator whose ID equals the target up to letter      *)
(* case, resolution returns a reference to that declaration's document     *)
(* instead of failing as unresolvable.                                     *)
(***************************************************************************)
CaseFold(name) ==
    CASE name \in {"PLUS", "plus"} -> "plus"
      [] name \in {"NOT IN", "not in", "NOT-IN", "not-in"} -> "not-in"

DeclaredAs(target) ==
    { t \in DOMAIN eql.objects :
        t[1] = "operator" /\ CaseFold(t[2]) = CaseFold(target) }

C22_OperatorIdCaseInsensitive ==
    [][ (op'.name = "resolve_xref" /\ op'.type = "op"
         /\ DeclaredAs(op'.target) # {})
        => /\ op'.err = "none"
           /\ op'.result.target \in DeclaredAs(op'.target)
           /\ op'.result.docname = eql.objects[op'.result.target][1] ]_vars

(***************************************************************************)
(* C23, C24: the reentrancy guards of SortedList                           *)
(***************************************************************************)
\* The number of occurrences of v in the sequence a.
Occurrences(a, v) == Cardinality({ i \in 1 .. Len(a) : a[i] = v })

\* The elements handed to the call recorded in o.
Added(o) ==
    IF o.name \in {"append", "insert"} THEN <<o.x>>
    ELSE IF o.name \in {"extend", "extend(self)"} THEN o.L
    ELSE <<>>

SortedCall(o) == o.name \in {"append", "insert", "extend", "extend(self)"}

\* C23: each external call to append(x) or insert(i, x) terminates and adds
\* exactly one occurrence of x, and each external extend(xs) terminates and
\* adds exactly one occurrence of every element of xs: a call never runs
\* until memory is exhausted, and a call that returns has added to the list
\* exactly the elements it was given, each once.
C23_OneOccurrencePerCall ==
    [][ SortedCall(op')
        => /\ op'.err # "MemoryError"
           /\ op'.err = "none"
              => \A v \in Elements :
                    Occurrences(sl'.items, v)
                        = Occurrences(sl.items, v) + Occurrences(Added(op'), v) ]_vars

\* C24: a failed append, insert or extend leaves the list exactly as before
\* the call, elements and guard flags alike, and after every call the list
\* is in non-decreasing order.
C24_FailedCallChangesNothing ==
    [][ SortedCall(op')
        => /\ op'.err # "none" => sl' = sl
           /\ Sorted(sl'.items) ]_vars

(***************************************************************************)
(* C25: every operation that inserts into a StrictOrderedIndex (item       *)
(* assignment, add, update, construction from an iterable) rejects with an *)
(* error an element whose key is already present: a call that meets a key  *)
(* already in the index, or twice among its own elements, raises.          *)
(***************************************************************************)
\* Some element of L has a key that the index self holds or that an earlier
\* element of L has.
MeetsPresentKey(self, L) ==
    \E i \in 1 .. Len(L) :
        \/ BaseOrderedSet_contains(self, L[i])
        \/ \E j \in 1 .. i - 1 : PyEq(key(self, L[j]), key(self, L[i]))

C25_EveryInsertRejectsDuplicate ==
    [][ /\ (op'.name \in {"add", "__setitem__", "update"}
                /\ MeetsPresentKey(oi, op'.args))
            => op'.err # "none"
        /\ (op'.name = "StrictOrderedIndex(iterable)"
                /\ MeetsPresentKey(OrderedIndex_init(oi.key), op'.args))
            => op'.err # "none"
        /\ (op'.name = "index[k]=v" /\ dict_has(oi.map, op'.args[1]))
            => op'.err # "none" ]_vars

(***************************************************************************)
(* C26, C27: what setdefaults overwrites and what a callable default gives *)
(***************************************************************************)
\* C26 as stated: a field the caller explicitly set to any value, an empty
\* or falsy one included, keeps that value after setdefaults(), whatever
\* the default of the field: the field just written through attribute
\* assignment is the same before and after the call.
C26_ExplicitValueKept_AsStated ==
    [][ (op.name = "__setattr__" /\ op.err = "none" /\ op'.name = "setdefaults")
        => inst'.attrs[op.field] = inst.attrs[op.field] ]_vars

\* C26 amended: setdefaults() changes only fields whose value is None: a
\* field that holds any value other than None, a falsy one such as 0
\* included, keeps it whatever its default is, and a call that returns
\* leaves no field with a default at None (None, also when the caller
\* wrote it, counts as unset).
C26_ExplicitValueKept ==
    [][ op'.name = "setdefaults"
        => \A f \in FieldNames :
              /\ inst.attrs[f] # None => inst'.attrs[f] = inst.attrs[f]
              /\ (op'.err = "none" /\ fields[f].default.kind # "None")
                    => inst'.attrs[f] # None ]_vars

\* C26 witness: setdefaults has returned right after an attribute write on
\* an instance whose field a holds the falsy value 0 while its default is 1.
C26_Witness ==
    /\ op.name = "setdefaults" /\ op.err = "none"
    /\ op.prev = [name |-> "__setattr__", err |-> "none"]
    /\ fields["a"].default = Literal(IntVal(1))
    /\ inst.attrs["a"] = IntVal(0)

\* The step computes the default of field f and returns: a construction
\* with defaults that was given no value for f, or a setdefaults() that
\* found f at None.
DefaultStored(f) ==
    /\ op'.err = "none"
    /\ \/ /\ op'.name = "__init__" /\ op'.setdefaults
          /\ kwargs_get(op'.kw, f) = None
       \/ op'.name = "setdefaults" /\ inst.attrs[f] = None

\* C27: when the default of a field is a zero-argument callable, computing
\* the default for an omitted field (at construction or in setdefaults)
\* calls it and stores what it returns: after the call the field holds the
\* callable's result.
C27_FactoryResultStored ==
    [][ \A f \in FieldNames :
            (fields[f].default.kind = "callable" /\ DefaultStored(f))
                => inst'.attrs[f] = fields[f].default.val ]_vars

(***************************************************************************)
(* C28: equality of an OrderedSet with an operand that is neither a set of *)
(* the same class nor None is decided by disjointness: the comparison is   *)
(* true exactly when the two collections share at least one element.       *)
(***************************************************************************)
ShareAnElement(a, b) ==
    \E i \in 1 .. Len(a), j \in 1 .. Len(b) : PyEq(a[i], b[j])

C28_EqualityByOverlap ==
    [][ (op'.name = "==" /\ op'.kind = "list")
        => op'.result = ShareAnElement(op'.a, op'.b) ]_vars

\* C28 witness: a set has compared equal to a list that shares one element
\* with it and holds another the set does not have.
C28_Witness ==
    /\ op.name = "==" /\ op.kind = "list" /\ op.result
    /\ ShareAnElement(op.a, op.b)
    /\ \E j \in 1 .. Len(op.b) : ~ShareAnElement(op.a, <<op.b[j]>>)

(***************************************************************************)
(* C29: after any sequence of add, discard, remove and clear calls on an   *)
(* ExtendedSet, membership and contents agree: x is in the set exactly     *)
(* when some element yielded by iteration has the key of x, and the length *)
(* is the number of distinct keys present.                                 *)
(***************************************************************************)
\* The keys of the elements that iteration yields, one per equality class.
KeysOfElements(self) == { key(self, y).k : y \in self.set }

C29_MembershipAgreesWithContents ==
    /\ \A x \in Objects :
          ExtendedSet_contains(es, x) <=> key(es, x).k \in KeysOfElements(es)
    /\ ExtendedSet_len(es) = Cardinality(KeysOfElements(es))

(***************************************************************************)
(* C30: copy() of an OrderedIndex built with a key function, and likewise  *)
(* the result of a set operator on it, is an index with the same key       *)
(* function; the copy has the same keys and values in the same order, so   *)
(* every lookup, membership test and delete by key gives the same result   *)
(* on the copy as on the original.                                         *)
(***************************************************************************)
SameAnswers(a, b) ==
    /\ \A k \in IndexKeys :
          /\ OrderedIndex_getitem(a, k) = OrderedIndex_getitem(b, k)
          /\ OrderedIndex_delitem(a, k).exc = OrderedIndex_delitem(b, k).exc
          /\ OrderedIndex_delitem(a, k).self.map = OrderedIndex_delitem(b, k).self.map
    /\ \A x \in Objects :
          BaseOrderedSet_contains(a, x) = BaseOrderedSet_contains(b, x)

C30_CopyKeepsKeyFunction ==
    [][ /\ op'.name \in {"copy", "|"} => oi2'.key = oi.key
        /\ op'.name = "copy" => (oi2'.map = oi.map /\ SameAnswers(oi2', oi)) ]_vars

====
